---- MODULE Spec2Model ----
(***************************************************************************)
(* Model of parse_trades.py: the loader's de-duplication loop              *)
(* (load_transactions) followed by the report generator's accounting       *)
(* passes (generate_html): position grouping, the totals pass, the         *)
(* realized-P&L timeline pass, dividends, tax adjustments and the sorted   *)
(* cumulative timeline.                                                    *)
(*                                                                         *)
(* Python floats are modelled by exact rationals <<n, d>> in lowest terms  *)
(* with d > 0; round(x, k) is modelled as rounding the exact value half to *)
(* even.  A datetime is modelled by its day number.                        *)
(***************************************************************************)
EXTENDS Integers, Sequences, FiniteSets, TLC

(***************************************************************************)
(* Bounds                                                                  *)
(***************************************************************************)
MaxLen == 3

(***************************************************************************)
(* Exact rational arithmetic standing for float arithmetic                 *)
(***************************************************************************)
IAbs(n) == IF n < 0 THEN -n ELSE n

RECURSIVE GCD(_, _)
GCD(a, b) == IF b = 0 THEN a ELSE GCD(b, a % b)

Norm(n, d) ==
    LET g == GCD(IAbs(n), IAbs(d))
        s == IF d < 0 THEN -1 ELSE 1
    IN  <<(s * n) \div g, (s * d) \div g>>

R(n) == <<n, 1>>

Zero == R(0)

RAdd(a, b) ==
    LET g == GCD(a[2], b[2])
    IN  Norm(a[1] * (b[2] \div g) + b[1] * (a[2] \div g), (a[2] \div g) * b[2])

RNeg(a) == <<-a[1], a[2]>>

RSub(a, b) == RAdd(a, RNeg(b))

RMul(a, b) ==
    LET g1 == GCD(IAbs(a[1]), b[2])
        g2 == GCD(IAbs(b[1]), a[2])
    IN  Norm((a[1] \div g1) * (b[1] \div g2), (a[2] \div g2) * (b[2] \div g1))

\* a / b, only used where the code has established b # 0
RDiv(a, b) == RMul(a, Norm(b[2], b[1]))

RAbs(a) == <<IAbs(a[1]), a[2]>>

RLt(a, b) == RSub(a, b)[1] < 0

RLe(a, b) == RSub(a, b)[1] <= 0

RGt(a, b) == RLt(b, a)

RECURSIVE RSum(_)
RSum(s) == IF s = <<>> THEN Zero ELSE RAdd(RSum(SubSeq(s, 1, Len(s) - 1)), s[Len(s)])

\* round(x, k) with scale = 10^k: nearest multiple of 1/scale, ties to even
Round(x, scale) ==
    LET m  == RMul(x, R(scale))
        q  == m[1] \div m[2]
        r2 == 2 * (m[1] % m[2])
        up == \/ r2 > m[2]
              \/ r2 = m[2] /\ q % 2 = 1
    IN  Norm(IF up THEN q + 1 ELSE q, scale)


\* sorted(seq, key=...) / list.sort(key=...) on date keys: ascending, stable
SortAscending(seq, keys) ==
    LET n == Len(seq)
        rank(i) == Cardinality({j \in 1..n : \/ keys[j] < keys[i]
                                             \/ keys[j] = keys[i] /\ j < i})
    IN  [k \in 1..n |-> seq[CHOOSE i \in 1..n : rank(i) = k - 1]]

\* list.sort(key=..., reverse=True) on float keys: descending, ties keep
\* their input order
SortDescending(seq, keys) ==
    LET n == Len(seq)
        rank(i) == Cardinality({j \in 1..n : \/ RGt(keys[j], keys[i])
                                             \/ keys[j] = keys[i] /\ j < i})
    IN  [k \in 1..n |-> seq[CHOOSE i \in 1..n : rank(i) = k - 1]]

(***************************************************************************)
(* Transactions (dataclass Transaction, the fields the loader and the      *)
(* report generator read)                                                  *)
(***************************************************************************)
Tx(typ, isin, name, datum, betrag, stueck, is_kauf, is_verkauf) ==
    [typ |-> typ, isin |-> isin, name |-> name, datum |-> datum,
     betrag |-> betrag, stueck |-> stueck, is_kauf |-> is_kauf,
     is_verkauf |-> is_verkauf]

\* instrument names are character sequences, so that slicing can be modelled
NameX == <<"X", "c", "o">>

NameZ == <<"Z", "f", "u", "n", "d">>

NoName == <<>>

\* Inputs: transactions of the shapes the two readers produce.  A trade kind
\* with an instrument id has exactly one direction flag; a WP-Abrechnung whose
\* detail pattern did not match has no id, no quantity and no flag.
TxUniverse ==
    { Tx("Order", "X", NameX, 1, R(-1000), R(10), TRUE, FALSE),
      Tx("Sparplan", "X", NameX, 2, R(-100), R(3), TRUE, FALSE),
      Tx("Order", "X", NameX, 2, R(500), R(4), FALSE, TRUE),
      Tx("Order", "X", NameX, 3, R(1500), R(10), FALSE, TRUE),
      Tx("WP-Abrechnung", "X", NoName, 2, R(50), Zero, FALSE, TRUE),
      Tx("Bruchstuecke", "Z", NameZ, 1, R(-1), <<1, 2000>>, TRUE, FALSE),
      Tx("Bruchstuecke", "Z", NameZ, 1, R(-1), <<13, 25000>>, TRUE, FALSE),
      Tx("Bruchstuecke", "Z", NameZ, 2, R(-1), <<1, 1000>>, TRUE, FALSE),
      Tx("WP-Abrechnung", "", NoName, 2, R(20), Zero, FALSE, FALSE),
      Tx("Dividende", "X", NoName, 2, R(7), Zero, FALSE, FALSE),
      Tx("Steuerausgleich", "", NoName, 3, R(-5), Zero, FALSE, FALSE),
      Tx("Einzahlung", "", NoName, 1, R(100), Zero, FALSE, FALSE),
      Tx("Einzahlung", "", NoName, 1, <<25001, 250>>, Zero, FALSE, FALSE) }

RECURSIVE SeqsUpTo(_, _)
SeqsUpTo(S, n) ==
    IF n = 0 THEN {<<>>}
    ELSE LET shorter == SeqsUpTo(S, n - 1)
         IN  shorter \cup {Append(s, x) : s \in {u \in shorter : Len(u) = n - 1}, x \in S}

trade_types == {"Order", "Sparplan", "Bruchstuecke", "WP-Abrechnung"}

VARIABLES
    pc,                    \* position in load_transactions / generate_html
    all_transactions,      \* load_transactions: concatenation of the readers' outputs
    di,                    \* index of the de-duplication loop
    seen,                  \* keys seen so far
    unique_transactions,   \* de-duplicated list
    transactions,          \* generate_html's argument
    closed_positions,
    open_positions,
    ci,                    \* index of the totals pass
    cost_basis_calc,       \* totals pass: isin -> [cost, stueck]
    total_trade_pnl,
    total_realized_pnl,
    total_invested_open,
    ti,                    \* index of the timeline pass
    cost_basis_by_isin,    \* timeline pass: isin -> [total_cost, total_stueck]
    pnl_events,
    pnl_timeline,
    csv_files,             \* load_transactions: the ZERO-*.csv files found
    pdf_files,             \* load_transactions: the *.pdf files found
    PDF_SUPPORT,           \* whether pdfplumber could be imported
    fidx,                  \* index of the file loop
    value,                 \* parse_german_number's argument
    parsed,                \* its outcome
    formatted,             \* format_german_number of the parsed value
    reparsed,              \* parse_german_number of the formatted text
    date_str,              \* the date parsers' argument
    date_result,           \* their outcome
    narrative,             \* the classifiers' argument
    classified,            \* the Transaction after classification
    lines,                 \* read_trade_republic_pdf: all_text.split("\n")
    li,                    \* its line cursor i, counted from 1
    pdf_transactions       \* its list transactions

vars == <<pc, all_transactions, di, seen, unique_transactions, transactions,
          closed_positions, open_positions, ci, cost_basis_calc,
          total_trade_pnl, total_realized_pnl, total_invested_open, ti,
          cost_basis_by_isin, pnl_events, pnl_timeline,
          csv_files, pdf_files, PDF_SUPPORT, fidx,
          value, parsed, formatted, reparsed,
          date_str, date_result, narrative, classified,
          lines, li, pdf_transactions>>

fileVars == <<csv_files, pdf_files, PDF_SUPPORT, fidx>>
numberVars == <<value, parsed, formatted, reparsed>>
dateVars == <<date_str, date_result>>
classifyVars == <<narrative, classified>>
readerVars == <<lines, li, pdf_transactions>>
\* what load_transactions' de-duplication and generate_html never touch
otherVars == <<fileVars, numberVars, dateVars, classifyVars, readerVars>>

loadVars == <<all_transactions, di, seen, unique_transactions>>
positionVars == <<closed_positions, open_positions>>
totalsVars == <<ci, cost_basis_calc, total_trade_pnl, total_realized_pnl,
                total_invested_open>>
timelineVars == <<ti, cost_basis_by_isin, pnl_events, pnl_timeline>>

EmptyMap == [i \in {} |-> Zero]

\* an outcome of a call: a returned value or a raised exception
Returned(v) == [raised |-> FALSE, value |-> v]

Raised == [raised |-> TRUE, value |-> <<>>]

\* datetime.min, as <<year, month, day>>
DateMin == <<1, 1, 1>>

\* Transaction(...) as the readers construct it before classification
BlankTransaction ==
    [typ |-> "", order_nr |-> "", isin |-> "", name |-> <<>>, stueck |-> Zero,
     is_kauf |-> FALSE, is_verkauf |-> FALSE]

ReaderIdle ==
    /\ lines = <<>>
    /\ li = 1
    /\ pdf_transactions = <<>>

FilesIdle ==
    /\ csv_files = <<>>
    /\ pdf_files = <<>>
    /\ PDF_SUPPORT = TRUE
    /\ fidx = 1

NumberIdle ==
    /\ value = <<>>
    /\ parsed = Returned(Zero)
    /\ formatted = <<>>
    /\ reparsed = Returned(Zero)

DateIdle ==
    /\ date_str = <<>>
    /\ date_result = Returned(DateMin)

ClassifyIdle ==
    /\ narrative = [words |-> <<>>, rest |-> <<>>]
    /\ classified = Returned(BlankTransaction)

\* the state of generate_html's variables before it runs
ReportIdle ==
    /\ closed_positions = <<>>
    /\ open_positions = <<>>
    /\ ci = 1
    /\ cost_basis_calc = EmptyMap
    /\ total_trade_pnl = Zero
    /\ total_realized_pnl = Zero
    /\ total_invested_open = Zero
    /\ ti = 1
    /\ cost_basis_by_isin = EmptyMap
    /\ pnl_events = <<>>
    /\ pnl_timeline = <<>>

\* the state of the de-duplication loop before it runs
DedupIdle ==
    /\ di = 1
    /\ seen = {}
    /\ unique_transactions = <<>>
    /\ transactions = <<>>

Init ==
    /\ pc = "dedup"
    /\ all_transactions \in SeqsUpTo(TxUniverse, MaxLen)
    /\ FilesIdle /\ NumberIdle /\ DateIdle /\ ClassifyIdle /\ ReaderIdle
    /\ di = 1
    /\ seen = {}
    /\ unique_transactions = <<>>
    /\ transactions = <<>>
    /\ closed_positions = <<>>
    /\ open_positions = <<>>
    /\ ci = 1
    /\ cost_basis_calc = EmptyMap
    /\ total_trade_pnl = Zero
    /\ total_realized_pnl = Zero
    /\ total_invested_open = Zero
    /\ ti = 1
    /\ cost_basis_by_isin = EmptyMap
    /\ pnl_events = <<>>
    /\ pnl_timeline = <<>>

(***************************************************************************)
(* load_transactions: the two file loops                                   *)
(***************************************************************************)
MaxFiles == 2

\* A source file, by what reading it does: rows are the Transactions the
\* reader builds from it; raises tells whether the read raises an Exception
\* before it returns (rows are then the records built until that point, held
\* only in the reader's local list).
SourceFile(rows, raises) == [rows |-> rows, raises |-> raises]

FileUniverse ==
    {SourceFile(rows, raises) :
        rows \in {<<>>,
                  <<Tx("Order", "X", NameX, 1, R(-1000), R(10), TRUE, FALSE)>>,
                  <<Tx("Order", "X", NameX, 2, R(500), R(4), FALSE, TRUE),
                    Tx("Order", "X", NameX, 1, R(-1000), R(10), TRUE, FALSE)>>},
        raises \in BOOLEAN}

\* variant: the records built before the exception are kept
LoadFile_KeepsPartial(all, file) == all \o file.rows

\* try: transactions = read(file); all_transactions.extend(transactions)
\* except Exception: print the error
LoadFile(all, file) == IF file.raises THEN all ELSE all \o file.rows

InitLoad ==
    /\ pc = "csv"
    /\ csv_files \in SeqsUpTo(FileUniverse, MaxFiles)
    /\ pdf_files \in SeqsUpTo(FileUniverse, MaxFiles)
    /\ Len(csv_files) + Len(pdf_files) <= MaxFiles
    /\ PDF_SUPPORT \in BOOLEAN
    /\ fidx = 1
    /\ all_transactions = <<>>
    /\ DedupIdle /\ ReportIdle
    /\ NumberIdle /\ DateIdle /\ ClassifyIdle /\ ReaderIdle

\* for csv_file in csv_files
LoadCsvStep ==
    /\ pc = "csv"
    /\ fidx <= Len(csv_files)
    /\ all_transactions' = LoadFile(all_transactions, csv_files[fidx])
    /\ fidx' = fidx + 1
    /\ UNCHANGED <<pc, csv_files, pdf_files, PDF_SUPPORT>>
    /\ UNCHANGED <<di, seen, unique_transactions, transactions>>
    /\ UNCHANGED <<positionVars, totalsVars, timelineVars>>
    /\ UNCHANGED <<numberVars, dateVars, classifyVars, readerVars>>

\* end of the csv loop; if PDF_SUPPORT: the pdf loop
LoadCsvEnd ==
    /\ pc = "csv"
    /\ fidx > Len(csv_files)
    /\ pc' = IF PDF_SUPPORT THEN "pdf" ELSE "dedup"
    /\ fidx' = 1
    /\ UNCHANGED <<csv_files, pdf_files, PDF_SUPPORT>>
    /\ UNCHANGED <<loadVars, transactions, positionVars, totalsVars, timelineVars>>
    /\ UNCHANGED <<numberVars, dateVars, classifyVars, readerVars>>

\* for pdf_file in pdf_files
LoadPdfStep ==
    /\ pc = "pdf"
    /\ fidx <= Len(pdf_files)
    /\ all_transactions' = LoadFile(all_transactions, pdf_files[fidx])
    /\ fidx' = fidx + 1
    /\ UNCHANGED <<pc, csv_files, pdf_files, PDF_SUPPORT>>
    /\ UNCHANGED <<di, seen, unique_transactions, transactions>>
    /\ UNCHANGED <<positionVars, totalsVars, timelineVars>>
    /\ UNCHANGED <<numberVars, dateVars, classifyVars, readerVars>>

LoadPdfEnd ==
    /\ pc = "pdf"
    /\ fidx > Len(pdf_files)
    /\ pc' = "dedup"
    /\ UNCHANGED <<csv_files, pdf_files, PDF_SUPPORT, fidx>>
    /\ UNCHANGED <<loadVars, transactions, positionVars, totalsVars, timelineVars>>
    /\ UNCHANGED <<numberVars, dateVars, classifyVars, readerVars>>

(***************************************************************************)
(* load_transactions: duplicate removal                                    *)
(***************************************************************************)
\* variant: the key compares amount and quantity unrounded
DedupKey_Unrounded(t) == <<t.datum, t.betrag, t.isin, t.stueck>>

\* key = (t.datum, round(t.betrag, 2), t.isin, round(t.stueck, 4))
DedupKey(t) == <<t.datum, Round(t.betrag, 100), t.isin, Round(t.stueck, 10000)>>

\* variant: meeting a duplicate forgets its key
DedupLoopBody_Forgets(seen_, unique, t) ==
    LET key == DedupKey(t)
    IN  IF key \notin seen_
        THEN [seen |-> seen_ \cup {key}, unique |-> Append(unique, t)]
        ELSE [seen |-> seen_ \ {key}, unique |-> unique]

\* one iteration of the loop over all_transactions
DedupLoopBody(seen_, unique, t) ==
    LET key == DedupKey(t)
    IN  IF key \notin seen_
        THEN [seen |-> seen_ \cup {key}, unique |-> Append(unique, t)]
        ELSE [seen |-> seen_, unique |-> unique]

\* the whole loop, from seen = set() and unique_transactions = []
RECURSIVE DedupLoop(_)
DedupLoop(txs) ==
    IF txs = <<>> THEN [seen |-> {}, unique |-> <<>>]
    ELSE LET before == DedupLoop(SubSeq(txs, 1, Len(txs) - 1))
         IN  DedupLoopBody(before.seen, before.unique, txs[Len(txs)])

DedupStep ==
    /\ pc = "dedup"
    /\ di <= Len(all_transactions)
    /\ LET r == DedupLoopBody(seen, unique_transactions, all_transactions[di])
       IN  /\ seen' = r.seen
           /\ unique_transactions' = r.unique
    /\ di' = di + 1
    /\ UNCHANGED otherVars
    /\ UNCHANGED <<pc, all_transactions, transactions>>
    /\ UNCHANGED <<positionVars, totalsVars, timelineVars>>

\* return unique_transactions; main hands the list to generate_html
LoadReturn ==
    /\ pc = "dedup"
    /\ di > Len(all_transactions)
    /\ transactions' = unique_transactions
    /\ pc' = "positions"
    /\ UNCHANGED otherVars
    /\ UNCHANGED <<loadVars, positionVars, totalsVars, timelineVars>>

(***************************************************************************)
(* generate_html: grouping by instrument and open/closed positions         *)
(***************************************************************************)
Trades(txs) == SelectSeq(txs, LAMBDA t : t.typ \in trade_types)

Betraege(ts) == [k \in 1..Len(ts) |-> ts[k].betrag]

Stuecke(ts) == [k \in 1..Len(ts) |-> ts[k].stueck]

\* keys of trades_by_isin in insertion order
RECURSIVE IsinOrder(_)
IsinOrder(ts) ==
    IF ts = <<>> THEN <<>>
    ELSE LET front == IsinOrder(SubSeq(ts, 1, Len(ts) - 1))
             isin == ts[Len(ts)].isin
         IN  IF isin = "" \/ \E k \in 1..Len(front) : front[k] = isin
             THEN front
             ELSE Append(front, isin)

Kaufe(ts, isin) == SelectSeq(ts, LAMBDA t : t.isin = isin /\ t.is_kauf)

Verkaeufe(ts, isin) == SelectSeq(ts, LAMBDA t : t.isin = isin /\ ~t.is_kauf)

SeqMin(s) == CHOOSE x \in {s[k] : k \in 1..Len(s)} : \A k \in 1..Len(s) : x <= s[k]

SeqMax(s) == CHOOSE x \in {s[k] : k \in 1..Len(s)} : \A k \in 1..Len(s) : x >= s[k]

\* trades_by_isin[isin]["name"]: the name of the first trade carrying the id
FirstName(ts, isin) == SelectSeq(ts, LAMBDA t : t.isin = isin)[1].name

Epsilon == <<1, 1000>>

\* variant: the tolerance itself counts as closed
IsClosed_Inclusive(open_stueck) == RLe(RAbs(open_stueck), Epsilon)

\* abs(open_stueck) < 0.001
IsClosed(open_stueck) == RLt(RAbs(open_stueck), Epsilon)

\* variant: the sign of the buy total is kept
AvgKaufPreis_Signed(kauf_sum, kauf_stueck) == RDiv(kauf_sum, kauf_stueck)

\* variant: the buy total is subtracted although it is already negative
ClosedPnl_Minus(verkauf_sum, kauf_sum) == RSub(verkauf_sum, kauf_sum)

\* position_data["pnl"] = verkauf_sum + kauf_sum
ClosedPnl(verkauf_sum, kauf_sum) == RAdd(verkauf_sum, kauf_sum)

\* abs(kauf_sum) / kauf_stueck
AvgKaufPreis(kauf_sum, kauf_stueck) == RDiv(RAbs(kauf_sum), kauf_stueck)

\* variant: the cost of everything bought is set against the sales
ProportionalCost_Bought(verkauf_stueck, kauf_stueck, kauf_sum) == RAbs(kauf_sum)

\* (verkauf_stueck / kauf_stueck) * abs(kauf_sum)
ProportionalCost(verkauf_stueck, kauf_stueck, kauf_sum) ==
    RMul(RDiv(verkauf_stueck, kauf_stueck), RAbs(kauf_sum))

\* position_data of one instrument
PositionData(ts, isin) ==
    LET kaufe == Kaufe(ts, isin)
        verkaeufe == Verkaeufe(ts, isin)
        kauf_sum == RSum(Betraege(kaufe))
        verkauf_sum == RSum(Betraege(verkaeufe))
        kauf_stueck == RSum(Stuecke(kaufe))
        verkauf_stueck == RSum(Stuecke(verkaeufe))
        open_stueck == RSub(kauf_stueck, verkauf_stueck)
        base == [isin |-> isin, name |-> FirstName(ts, isin), kauf_count |-> Len(kaufe),
                 verkauf_count |-> Len(verkaeufe), kauf_sum |-> kauf_sum,
                 verkauf_sum |-> verkauf_sum, kauf_stueck |-> kauf_stueck,
                 verkauf_stueck |-> verkauf_stueck, open_stueck |-> open_stueck]
        pnl == ClosedPnl(verkauf_sum, kauf_sum)
        hold_days == IF kaufe # <<>> /\ verkaeufe # <<>>
                     THEN SeqMax([k \in 1..Len(verkaeufe) |-> verkaeufe[k].datum])
                          - SeqMin([k \in 1..Len(kaufe) |-> kaufe[k].datum])
                     ELSE 0
        invested == RAbs(kauf_sum)
        rendite_pct == IF RGt(invested, Zero)
                       THEN RMul(RDiv(pnl, invested), R(100))
                       ELSE Zero
        avg_kauf_preis == IF RGt(kauf_stueck, Zero)
                          THEN AvgKaufPreis(kauf_sum, kauf_stueck)
                          ELSE Zero
        open_invested == IF RGt(kauf_stueck, Zero)
                         THEN RMul(open_stueck, avg_kauf_preis)
                         ELSE Zero
        cost_of_sold == IF RGt(kauf_stueck, Zero)
                        THEN ProportionalCost(verkauf_stueck, kauf_stueck, kauf_sum)
                        ELSE Zero
        realized_pnl == IF RGt(verkauf_stueck, Zero)
                        THEN RSub(verkauf_sum, cost_of_sold)
                        ELSE Zero
    IN  IF IsClosed(open_stueck)
        THEN [closed |-> TRUE, base |-> base, pnl |-> pnl,
              hold_days |-> hold_days, rendite_pct |-> rendite_pct]
        ELSE [closed |-> FALSE, base |-> base,
              avg_kauf_preis |-> avg_kauf_preis, invested |-> open_invested,
              realized_pnl |-> realized_pnl]

AllPositions(txs) ==
    LET ts == Trades(txs)
        order == IsinOrder(ts)
    IN  [k \in 1..Len(order) |-> PositionData(ts, order[k])]

\* loop over trades_by_isin, then both lists sorted descending
ComputePositions ==
    /\ pc = "positions"
    /\ LET all == AllPositions(transactions)
           closed == SelectSeq(all, LAMBDA p : p.closed)
           open == SelectSeq(all, LAMBDA p : ~p.closed)
       IN  /\ closed_positions' =
                 SortDescending(closed, [k \in 1..Len(closed) |-> closed[k].pnl])
           /\ open_positions' =
                 SortDescending(open, [k \in 1..Len(open) |-> open[k].invested])
    /\ pc' = "totals"
    /\ UNCHANGED otherVars
    /\ UNCHANGED <<loadVars, transactions, totalsVars, timelineVars>>

(***************************************************************************)
(* generate_html: totals pass (average cost basis)                         *)
(***************************************************************************)
Daten(ts) == [k \in 1..Len(ts) |-> ts[k].datum]

\* variant: the trades are processed in input order
SortedTrades_Unsorted(txs) == Trades(txs)

\* sorted(trades, key=lambda t: t.datum)
SortedTrades(txs) ==
    LET ts == Trades(txs)
    IN  SortAscending(ts, Daten(ts))

MapPut(m, k, v) == [i \in DOMAIN m \cup {k} |-> IF i = k THEN v ELSE m[i]]

\* one iteration of the loop over sorted_trades; result: ledgers and total
TotalsLoopBody(calc, total, t) ==
    IF t.isin = ""
    THEN [calc |-> calc, total |-> total]
    ELSE LET basis == IF t.isin \in DOMAIN calc
                      THEN calc[t.isin]
                      ELSE [cost |-> Zero, stueck |-> Zero]
         IN  IF t.is_kauf
             THEN [calc |-> MapPut(calc, t.isin,
                                   [cost |-> RAdd(basis.cost, RAbs(t.betrag)),
                                    stueck |-> RAdd(basis.stueck, t.stueck)]),
                   total |-> total]
             ELSE IF t.is_verkauf /\ RGt(t.stueck, Zero) /\ RGt(basis.stueck, Zero)
             THEN LET avg_cost == RDiv(basis.cost, basis.stueck)
                      cost_of_sold == RMul(avg_cost, t.stueck)
                  IN  [calc |-> MapPut(calc, t.isin,
                                       [cost |-> RSub(basis.cost, cost_of_sold),
                                        stueck |-> RSub(basis.stueck, t.stueck)]),
                       total |-> RAdd(total, RSub(t.betrag, cost_of_sold))]
             ELSE [calc |-> MapPut(calc, t.isin, basis), total |-> total]

TotalsStep ==
    /\ pc = "totals"
    /\ ci <= Len(SortedTrades(transactions))
    /\ LET r == TotalsLoopBody(cost_basis_calc, total_trade_pnl,
                               SortedTrades(transactions)[ci])
       IN  /\ cost_basis_calc' = r.calc
           /\ total_trade_pnl' = r.total
    /\ ci' = ci + 1
    /\ UNCHANGED otherVars
    /\ UNCHANGED <<pc, loadVars, transactions, positionVars, timelineVars>>
    /\ UNCHANGED <<total_realized_pnl, total_invested_open>>

\* variant: the amounts are summed without their sign
SumOfTyp_Abs(txs, typ) ==
    LET ts == SelectSeq(txs, LAMBDA t : t.typ = typ)
    IN  RSum([k \in 1..Len(ts) |-> RAbs(ts[k].betrag)])

SumOfTyp(txs, typ) == RSum(Betraege(SelectSeq(txs, LAMBDA t : t.typ = typ)))

\* total_realized_pnl and total_invested_open after the loop
TotalsFinish ==
    /\ pc = "totals"
    /\ ci > Len(SortedTrades(transactions))
    /\ total_realized_pnl' =
           RAdd(RAdd(total_trade_pnl, SumOfTyp(transactions, "Steuerausgleich")),
                SumOfTyp(transactions, "Dividende"))
    /\ total_invested_open' =
           RSum([k \in 1..Len(open_positions) |-> open_positions[k].invested])
    /\ pc' = "timeline"
    /\ UNCHANGED otherVars
    /\ UNCHANGED <<loadVars, transactions, positionVars, timelineVars>>
    /\ UNCHANGED <<ci, cost_basis_calc, total_trade_pnl>>

(***************************************************************************)
(* generate_html: realized-P&L events per sale (average cost basis)        *)
(***************************************************************************)
PnlEvent(date, pnl, type, name) ==
    [date |-> date, pnl |-> pnl, type |-> type, name |-> name]

\* name[:30]
Slice(name, n) == SubSeq(name, 1, IF Len(name) < n THEN Len(name) ELSE n)

\* variant: the signed amount is added to the cost
TimelineBuy_Signed(basis, t) ==
    [basis EXCEPT !.total_cost = RAdd(basis.total_cost, t.betrag),
                  !.total_stueck = RAdd(basis.total_stueck, t.stueck)]

\* if t.is_kauf: the ledger after a purchase
TimelineBuy(basis, t) ==
    [basis EXCEPT !.total_cost = RAdd(basis.total_cost, RAbs(t.betrag)),
                  !.total_stueck = RAdd(basis.total_stueck, t.stueck)]

\* variant: a sale is matched only when the ledger covers its quantity
TimelineSellApplies_Covered(basis, t) ==
    t.is_verkauf /\ RGt(t.stueck, Zero) /\ RLe(t.stueck, basis.total_stueck)

\* elif t.is_verkauf and t.stueck > 0: if basis["total_stueck"] > 0:
TimelineSellApplies(basis, t) ==
    t.is_verkauf /\ RGt(t.stueck, Zero) /\ RGt(basis.total_stueck, Zero)

\* variant: the whole accumulated cost is booked against a sale
TimelineCostOfSold_Whole(basis, t) == basis.total_cost

\* avg_cost_per_unit * t.stueck
TimelineCostOfSold(basis, t) ==
    RMul(RDiv(basis.total_cost, basis.total_stueck), t.stueck)

\* variant: the proceeds of the sale are taken off the accumulated cost
TimelineSell_Proceeds(basis, t) ==
    [basis EXCEPT !.total_cost = RSub(basis.total_cost, RAbs(t.betrag)),
                  !.total_stueck = RSub(basis.total_stueck, t.stueck)]

\* variant: the cost of the sold units stays on the ledger
TimelineSell_KeepsCost(basis, t) ==
    [basis EXCEPT !.total_stueck = RSub(basis.total_stueck, t.stueck)]

\* the ledger after a matched sale
TimelineSell(basis, t) ==
    [basis EXCEPT !.total_cost = RSub(basis.total_cost, TimelineCostOfSold(basis, t)),
                  !.total_stueck = RSub(basis.total_stueck, t.stueck)]

\* variant: an unmatched sale books its whole proceeds as profit
TimelineUnmatched_BooksProceeds(events, t) ==
    IF t.is_verkauf
    THEN Append(events, [date |-> t.datum, pnl |-> t.betrag, type |-> "Trade",
                         name |-> t.name])
    ELSE events

\* a sale that meets an empty ledger: nothing is appended
TimelineUnmatched(events, t) == events

\* one iteration of the loop over all_trade_transactions
TimelineLoopBody(by_isin, events, t) ==
    IF t.isin = ""
    THEN [by_isin |-> by_isin, events |-> events]
    ELSE LET basis == IF t.isin \in DOMAIN by_isin
                      THEN by_isin[t.isin]
                      ELSE [total_cost |-> Zero, total_stueck |-> Zero,
                            name |-> t.name]
         IN  IF t.is_kauf
             THEN [by_isin |-> MapPut(by_isin, t.isin, TimelineBuy(basis, t)),
                   events |-> events]
             ELSE IF TimelineSellApplies(basis, t)
             THEN [by_isin |-> MapPut(by_isin, t.isin, TimelineSell(basis, t)),
                   events |-> Append(events,
                       PnlEvent(t.datum,
                                RSub(t.betrag, TimelineCostOfSold(basis, t)),
                                "Trade", Slice(basis.name, 30)))]
             ELSE [by_isin |-> MapPut(by_isin, t.isin, basis),
                   events |-> TimelineUnmatched(events, t)]

TimelineStep ==
    /\ pc = "timeline"
    /\ ti <= Len(SortedTrades(transactions))
    /\ LET r == TimelineLoopBody(cost_basis_by_isin, pnl_events,
                                 SortedTrades(transactions)[ti])
       IN  /\ cost_basis_by_isin' = r.by_isin
           /\ pnl_events' = r.events
    /\ ti' = ti + 1
    /\ UNCHANGED otherVars
    /\ UNCHANGED <<pc, loadVars, transactions, positionVars, totalsVars, pnl_timeline>>

TimelineLoopEnd ==
    /\ pc = "timeline"
    /\ ti > Len(SortedTrades(transactions))
    /\ pc' = "dividends"
    /\ UNCHANGED otherVars
    /\ UNCHANGED <<loadVars, transactions, positionVars, totalsVars, timelineVars>>

OfTyp(txs, typ) == SelectSeq(txs, LAMBDA t : t.typ = typ)

\* variant: the magnitude of the amount is booked
FlatEvent_Abs(t, type, name) == PnlEvent(t.datum, RAbs(t.betrag), type, name)

\* the event appended for a dividend or a tax adjustment
FlatEvent(t, type, name) == PnlEvent(t.datum, t.betrag, type, name)

\* for t in dividenden: pnl_events.append(...)
AddDividends ==
    /\ pc = "dividends"
    /\ LET dividenden == OfTyp(transactions, "Dividende")
       IN  pnl_events' = pnl_events \o
               [k \in 1..Len(dividenden) |->
                    FlatEvent(dividenden[k], "Dividende",
                              IF dividenden[k].isin # "" THEN dividenden[k].isin
                              ELSE "Dividende")]
    /\ pc' = "steuerausgleich"
    /\ UNCHANGED otherVars
    /\ UNCHANGED <<loadVars, transactions, positionVars, totalsVars>>
    /\ UNCHANGED <<ti, cost_basis_by_isin, pnl_timeline>>

\* for t in steuerausgleich: pnl_events.append(...)
AddSteuerausgleich ==
    /\ pc = "steuerausgleich"
    /\ LET steuerausgleich == OfTyp(transactions, "Steuerausgleich")
       IN  pnl_events' = pnl_events \o
               [k \in 1..Len(steuerausgleich) |->
                    FlatEvent(steuerausgleich[k], "Steuerausgleich",
                              "Steuerausgleich")]
    /\ pc' = "cumulate"
    /\ UNCHANGED otherVars
    /\ UNCHANGED <<loadVars, transactions, positionVars, totalsVars>>
    /\ UNCHANGED <<ti, cost_basis_by_isin, pnl_timeline>>

\* variant: the entry carries the event's own delta as cumulative value
TimelineEntry_Delta(event, cumulative_pnl) ==
    [date |-> event.date, cumulative |-> Round(event.pnl, 100),
     change |-> Round(event.pnl, 100), type |-> event.type, name |-> event.name]

\* pnl_timeline.append({...})
TimelineEntry(event, cumulative_pnl) ==
    [date |-> event.date, cumulative |-> Round(cumulative_pnl, 100),
     change |-> Round(event.pnl, 100), type |-> event.type, name |-> event.name]

\* pnl_events.sort(key=date); running cumulative_pnl, rounded per entry
RECURSIVE Cumulate(_)
Cumulate(events) ==
    IF events = <<>> THEN [cumulative_pnl |-> Zero, timeline |-> <<>>]
    ELSE LET prev == Cumulate(SubSeq(events, 1, Len(events) - 1))
             event == events[Len(events)]
             cumulative_pnl == RAdd(prev.cumulative_pnl, event.pnl)
         IN  [cumulative_pnl |-> cumulative_pnl,
              timeline |-> Append(prev.timeline, TimelineEntry(event, cumulative_pnl))]

BuildTimeline ==
    /\ pc = "cumulate"
    /\ LET sorted == SortAscending(pnl_events,
                                   [k \in 1..Len(pnl_events) |-> pnl_events[k].date])
       IN  /\ pnl_events' = sorted
           /\ pnl_timeline' = Cumulate(sorted).timeline
    /\ pc' = "done"
    /\ UNCHANGED otherVars
    /\ UNCHANGED <<loadVars, transactions, positionVars, totalsVars>>
    /\ UNCHANGED <<ti, cost_basis_by_isin>>

Next ==
    \/ DedupStep
    \/ LoadReturn
    \/ ComputePositions
    \/ TotalsStep
    \/ TotalsFinish
    \/ TimelineStep
    \/ TimelineLoopEnd
    \/ AddDividends
    \/ AddSteuerausgleich
    \/ BuildTimeline

Spec == Init /\ [][Next]_vars

(***************************************************************************)
(* parse_german_number and format_german_number.  A str is a sequence of   *)
(* one-character strings.  -0.0 is not told apart from 0.0 (they compare   *)
(* equal in Python).                                                       *)
(***************************************************************************)
MaxChars == 5

\* The characters of the texts tried.  The digits leave out 5, so that no
\* text has a value halfway between two 2-decimal numbers, where the binary
\* float and the exact value may round differently.
NumberChars == {"0", "1", "7", ".", ",", "-", " "}

DigitChars == <<"0", "1", "2", "3", "4", "5", "6", "7", "8", "9">>

IsDigit(c) == \E d \in 1..10 : DigitChars[d] = c

DigitValue(c) == (CHOOSE d \in 1..10 : DigitChars[d] = c) - 1

RECURSIVE Pow10(_)
Pow10(k) == IF k = 0 THEN 1 ELSE 10 * Pow10(k - 1)

\* int() of a run of digits
RECURSIVE DigitsValue(_)
DigitsValue(s) ==
    IF s = <<>> THEN 0
    ELSE 10 * DigitsValue(SubSeq(s, 1, Len(s) - 1)) + DigitValue(s[Len(s)])

\* str(n) for n >= 0
RECURSIVE ToDigits(_)
ToDigits(n) ==
    IF n < 10 THEN <<DigitChars[n + 1]>>
    ELSE Append(ToDigits(n \div 10), DigitChars[(n % 10) + 1])

\* str.strip() (the whitespace tried is the blank)
RECURSIVE Strip(_)
Strip(s) ==
    IF s = <<>> THEN s
    ELSE IF s[1] = " " THEN Strip(Tail(s))
    ELSE IF s[Len(s)] = " " THEN Strip(SubSeq(s, 1, Len(s) - 1))
    ELSE s

\* str.replace(old, new) for a one-character old
RECURSIVE Replace(_, _, _)
Replace(s, old, new) ==
    IF s = <<>> THEN s
    ELSE (IF s[1] = old THEN new ELSE <<s[1]>>) \o Replace(Tail(s), old, new)

CountOfChar(s, c) == Cardinality({k \in 1..Len(s) : s[k] = c})

\* float(text) for a text of digits, ".", "-", "+", blanks and other
\* characters: surrounding blanks are ignored; then an optional sign, digits
\* with at most one "." and at least one digit; anything else raises
\* ValueError
FloatOfText(text) ==
    LET stripped == Strip(text)
        signed == stripped # <<>> /\ stripped[1] \in {"-", "+"}
        body == IF signed THEN Tail(stripped) ELSE stripped
        point == IF \E k \in 1..Len(body) : body[k] = "."
                 THEN CHOOSE k \in 1..Len(body) : body[k] = "."
                 ELSE Len(body) + 1
        digits == SelectSeq(body, IsDigit)
        frac_len == IF point > Len(body) THEN 0 ELSE Len(body) - point
        magnitude == Norm(DigitsValue(digits), Pow10(frac_len))
    IN  IF /\ digits # <<>>
           /\ CountOfChar(body, ".") <= 1
           /\ \A k \in 1..Len(body) : IsDigit(body[k]) \/ body[k] = "."
        THEN Returned(IF signed /\ stripped[1] = "-" THEN RNeg(magnitude)
                      ELSE magnitude)
        ELSE Raised

\* value.strip().replace(".", "").replace(",", ".")
Cleaned(text) == Replace(Replace(Strip(text), ".", <<>>), ",", <<".">>)

\* variant: the ValueError of float() is not caught
parse_german_number_Uncaught(text) ==
    IF text = <<>> \/ Strip(text) = <<>> THEN Returned(Zero)
    ELSE FloatOfText(Cleaned(text))

parse_german_number(text) ==
    IF text = <<>> \/ Strip(text) = <<>> THEN Returned(Zero)
    ELSE LET r == FloatOfText(Cleaned(text))
         IN  IF r.raised THEN Returned(Zero) ELSE r

\* the "," grouping of f"{value:,}": a comma before every group of three
\* digits counted from the right
RECURSIVE Grouped(_)
Grouped(digits) ==
    IF Len(digits) <= 3 THEN digits
    ELSE Grouped(SubSeq(digits, 1, Len(digits) - 3)) \o <<",">>
         \o SubSeq(digits, Len(digits) - 2, Len(digits))

\* zero-padded str(n) of the given width
RECURSIVE Padded(_, _)
Padded(n, width) ==
    IF width = 0 THEN <<>>
    ELSE Append(Padded(n \div 10, width - 1), DigitChars[(n % 10) + 1])

\* f"{value:,.{decimals}f}"
FixedPoint(v, decimals) ==
    LET scale == Pow10(decimals)
        q == Round(v, scale)
        units == IAbs(q[1]) * (scale \div q[2])
    IN  (IF RLt(v, Zero) THEN <<"-">> ELSE <<>>)
        \o Grouped(ToDigits(units \div scale))
        \o (IF decimals > 0 THEN <<".">> \o Padded(units % scale, decimals) ELSE <<>>)

\* variant: the separators are not swapped
format_german_number_NoSwap(v, decimals) == FixedPoint(v, decimals)

\* formatted.replace(",", "X").replace(".", ",").replace("X", ".")
format_german_number(v, decimals) ==
    Replace(Replace(Replace(FixedPoint(v, decimals), ",", <<"X">>), ".", <<",">>),
            "X", <<".">>)

\* decimals=2
DefaultDecimals == 2

InitNumber ==
    /\ pc = "parse_number"
    /\ value \in SeqsUpTo(NumberChars, MaxChars)
    /\ parsed = Returned(Zero)
    /\ formatted = <<>>
    /\ reparsed = Returned(Zero)
    /\ all_transactions = <<>>
    /\ DedupIdle /\ ReportIdle
    /\ FilesIdle /\ DateIdle /\ ClassifyIdle /\ ReaderIdle

\* parse_german_number(value)
ParseNumber ==
    /\ pc = "parse_number"
    /\ parsed' = parse_german_number(value)
    /\ pc' = IF parsed'.raised THEN "number_raised" ELSE "format_number"
    /\ UNCHANGED <<value, formatted, reparsed>>
    /\ UNCHANGED <<loadVars, transactions, positionVars, totalsVars, timelineVars>>
    /\ UNCHANGED <<fileVars, dateVars, classifyVars, readerVars>>

\* format_german_number(parsed)
FormatNumber ==
    /\ pc = "format_number"
    /\ formatted' = format_german_number(parsed.value, DefaultDecimals)
    /\ pc' = "reparse_number"
    /\ UNCHANGED <<value, parsed, reparsed>>
    /\ UNCHANGED <<loadVars, transactions, positionVars, totalsVars, timelineVars>>
    /\ UNCHANGED <<fileVars, dateVars, classifyVars, readerVars>>

\* parse_german_number(formatted)
ReparseNumber ==
    /\ pc = "reparse_number"
    /\ reparsed' = parse_german_number(formatted)
    /\ pc' = IF reparsed'.raised THEN "number_raised" ELSE "number_done"
    /\ UNCHANGED <<value, parsed, formatted>>
    /\ UNCHANGED <<loadVars, transactions, positionVars, totalsVars, timelineVars>>
    /\ UNCHANGED <<fileVars, dateVars, classifyVars, readerVars>>

NextNumber ==
    \/ ParseNumber
    \/ FormatNumber
    \/ ReparseNumber

SpecNumber == InitNumber /\ [][NextNumber]_vars

(***************************************************************************)
(* parse_german_date and parse_trade_republic_date.  A date text is the    *)
(* sequence of its tokens: runs of word characters (digits, letters), the  *)
(* period, and " " for a run of whitespace.  A datetime is <<year, month,  *)
(* day>>.                                                                  *)
(***************************************************************************)
\* the digit runs tried: <<number of digits, int() of the run>>
NumberTable ==
    ("0" :> <<1, 0>>) @@ ("7" :> <<1, 7>>) @@ ("29" :> <<2, 29>>)
    @@ ("31" :> <<2, 31>>) @@ ("32" :> <<2, 32>>) @@ ("02" :> <<2, 2>>)
    @@ ("13" :> <<2, 13>>) @@ ("25" :> <<2, 25>>) @@ ("0000" :> <<4, 0>>)
    @@ ("2024" :> <<4, 2024>>) @@ ("2025" :> <<4, 2025>>)

IsNumberToken(tok) == tok \in DOMAIN NumberTable

TokenDigits(tok) == NumberTable[tok][1]

TokenValue(tok) == NumberTable[tok][2]

\* \w+ : any token but the period and the whitespace run
IsWordToken(tok) == tok \notin {".", " "}

\* GERMAN_MONTHS.get(month_str), 0 for None; month_str is the word, followed
\* by a period when dotted
GERMAN_MONTHS(word, dotted) ==
    LET full == [Januar |-> 1, Februar |-> 2, April |-> 4, Mai |-> 5, Juni |-> 6,
                 Juli |-> 7, August |-> 8, September |-> 9, Oktober |-> 10,
                 November |-> 11, Dezember |-> 12]
        full3 == ("M\\xe4rz" :> 3)
        short == [Jan |-> 1, Feb |-> 2, Apr |-> 4, Jun |-> 6, Jul |-> 7, Aug |-> 8,
                  Sep |-> 9, Okt |-> 10, Nov |-> 11, Dez |-> 12]
        short3 == ("M\\xe4r" :> 3)
    IN  IF word \in DOMAIN short \cup DOMAIN short3
        THEN (short @@ short3)[word]
        ELSE IF ~dotted /\ word \in DOMAIN full \cup DOMAIN full3
        THEN (full @@ full3)[word]
        ELSE 0

IsLeap(year) == year % 4 = 0 /\ (year % 100 # 0 \/ year % 400 = 0)

DaysInMonth(year, month) ==
    IF month = 2 THEN (IF IsLeap(year) THEN 29 ELSE 28)
    ELSE IF month \in {4, 6, 9, 11} THEN 30 ELSE 31

\* whether datetime(year, month, day) is a date; otherwise it raises ValueError
ValidDate(year, month, day) ==
    /\ 1 <= year /\ year <= 9999
    /\ 1 <= month /\ month <= 12
    /\ 1 <= day /\ day <= DaysInMonth(year, month)

\* datetime(year, month, day)
MakeDate(year, month, day) ==
    IF ValidDate(year, month, day) THEN Returned(<<year, month, day>>) ELSE Raised

\* whether "%d.%m.%Y" matches the whole text: day and month of one or two
\* digits within 1..31 and 1..12, a year of four digits
MatchesDotted(tokens) ==
    /\ Len(tokens) = 5
    /\ tokens[2] = "." /\ tokens[4] = "."
    /\ IsNumberToken(tokens[1]) /\ TokenDigits(tokens[1]) <= 2
    /\ TokenValue(tokens[1]) \in 1..31
    /\ IsNumberToken(tokens[3]) /\ TokenDigits(tokens[3]) <= 2
    /\ TokenValue(tokens[3]) \in 1..12
    /\ IsNumberToken(tokens[5]) /\ TokenDigits(tokens[5]) = 4

\* datetime.strptime(text, "%d.%m.%Y")
Strptime(tokens) ==
    IF MatchesDotted(tokens)
    THEN MakeDate(TokenValue(tokens[5]), TokenValue(tokens[3]), TokenValue(tokens[1]))
    ELSE Raised

parse_german_date(text) ==
    LET r == Strptime(Strip(text))
    IN  IF r.raised THEN Returned(DateMin) ELSE r

\* re.match(r"(\d{1,2})\s+(\w+\.?)\s+(\d{4})", date_str): the groups, or no match
MatchNamed(tokens) ==
    LET dotted == Len(tokens) >= 4 /\ tokens[4] = "."
        y == IF dotted THEN 6 ELSE 5
    IN  IF /\ Len(tokens) >= y
           /\ IsNumberToken(tokens[1]) /\ TokenDigits(tokens[1]) <= 2
           /\ tokens[2] = " "
           /\ IsWordToken(tokens[3])
           /\ tokens[y - 1] = " "
           /\ IsNumberToken(tokens[y]) /\ TokenDigits(tokens[y]) >= 4
        THEN [matched |-> TRUE, day |-> TokenValue(tokens[1]),
              month |-> GERMAN_MONTHS(tokens[3], dotted),
              year |-> TokenValue(tokens[y])]
        ELSE [matched |-> FALSE, day |-> 0, month |-> 0, year |-> 0]

parse_trade_republic_date(text) ==
    LET match == MatchNamed(Strip(text))
    IN  IF match.matched /\ match.month # 0
        THEN MakeDate(match.year, match.month, match.day)
        ELSE Returned(DateMin)

DateTexts ==
    {<<>>, <<" ">>} \cup
    {<<day, sep1>> \o month \o <<sep2, year>> \o rest :
        day \in {"0", "7", "29", "31", "32"},
        sep1 \in {".", " "},
        month \in {<<"02">>, <<"13">>, <<"Feb">>, <<"Feb", ".">>, <<"Februar">>,
                   <<"Dez">>, <<"Foo">>},
        sep2 \in {".", " "},
        year \in {"25", "0000", "2024", "2025"},
        rest \in {<<>>, <<" ">>, <<" ", "x">>}}

InitDate ==
    /\ pc = "parse_date"
    /\ date_str \in DateTexts
    /\ date_result = Returned(DateMin)
    /\ all_transactions = <<>>
    /\ DedupIdle /\ ReportIdle
    /\ FilesIdle /\ NumberIdle /\ ClassifyIdle /\ ReaderIdle

\* parse_german_date(date_str)
ParseGermanDate ==
    /\ pc = "parse_date"
    /\ date_result' = parse_german_date(date_str)
    /\ pc' = "german_date_done"
    /\ UNCHANGED date_str
    /\ UNCHANGED <<loadVars, transactions, positionVars, totalsVars, timelineVars>>
    /\ UNCHANGED <<fileVars, numberVars, classifyVars, readerVars>>

\* parse_trade_republic_date(date_str)
ParseTradeRepublicDate ==
    /\ pc = "parse_date"
    /\ date_result' = parse_trade_republic_date(date_str)
    /\ pc' = "tr_date_done"
    /\ UNCHANGED date_str
    /\ UNCHANGED <<loadVars, transactions, positionVars, totalsVars, timelineVars>>
    /\ UNCHANGED <<fileVars, numberVars, classifyVars, readerVars>>

NextDate ==
    \/ ParseGermanDate
    \/ ParseTradeRepublicDate

SpecDate == InitDate /\ [][NextDate]_vars

(***************************************************************************)
(* parse_verwendungszweck and parse_trade_republic_beschreibung.           *)
(* A narrative is its words (separated by whitespace) followed by rest,    *)
(* the characters after the last word and one blank.  In the narratives    *)
(* tried the markers STK and quantity: occur only as the last word, and no *)
(* word contains a keyword other than as listed below.                     *)
(***************************************************************************)
MaxQtyChars == 3

Narrative(words, rest) == [words |-> words, rest |-> rest]

\* [A-Z0-9]{12}
IsIsin(word) == word \in {"DE000BASF111"}

\* \d+
IsDigits(word) == word \in {"123456"}

\* the words that end with "Order", which the text "Order Nr" is found in
EndsWithOrder(word) == word \in {"Order", "Sparplan-Order", "Bruchstuecke-Order"}

\* [\d,.\s]
InQuantityClass(c) == IsDigit(c) \/ c \in {",", ".", " "}

\* variant: the sign is part of the quantity
InPagedQuantityClass_Signed(c) == IsDigit(c) \/ c \in {".", ",", "-"}

\* [\d.,]
InPagedQuantityClass(c) == IsDigit(c) \/ c \in {".", ","}

\* ([\d,.\s]+) at the start of rest: the longest run of the class
RECURSIVE QuantityGroup(_)
QuantityGroup(rest) ==
    IF rest = <<>> \/ ~InQuantityClass(rest[1]) THEN <<>>
    ELSE <<rest[1]>> \o QuantityGroup(Tail(rest))

\* group.strip().replace(" ", "").replace("-", "")
StueckStr(group) == Replace(Replace(Strip(group), " ", <<>>), "-", <<>>)

\* "- (Kauf|Verkauf)\s+\((.+?)\s+ISIN [A-Z0-9]{12}\s+STK\s+([\d,.\s]+)" from
\* word k on: the direction, the name of at least one word, the ISIN marker
\* and id, STK as last word, and a rest that starts within the class
DetailMatches(n, k) ==
    LET words == n.words
        last == Len(words)
    IN  /\ k + 6 <= last
        /\ words[k] = "-"
        /\ words[k + 1] \in {"Kauf", "Verkauf"}
        /\ words[k + 2] = "("
        /\ words[last - 2] = "ISIN" /\ IsIsin(words[last - 1]) /\ words[last] = "STK"
        /\ n.rest # <<>> /\ InQuantityClass(n.rest[1])

\* the fields a trade pattern fills, its detail part starting at word k
TradeFields(n, k, typ, order_nr, isin) ==
    [BlankTransaction EXCEPT
        !.typ = typ,
        !.order_nr = order_nr,
        !.isin = isin,
        !.is_kauf = (n.words[k + 1] = "Kauf"),
        !.is_verkauf = (n.words[k + 1] = "Verkauf"),
        !.name = SubSeq(n.words, k + 3, Len(n.words) - 3),
        !.stueck = parse_german_number(StueckStr(QuantityGroup(n.rest))).value]

\* where re.search finds "Order Nr (\d+) ISIN ([A-Z0-9]{12}) - ..."
OrderAt(n) ==
    {p \in 1..Len(n.words) :
        /\ p + 5 <= Len(n.words)
        /\ EndsWithOrder(n.words[p])
        /\ n.words[p + 1] = "Nr"
        /\ IsDigits(n.words[p + 2])
        /\ n.words[p + 3] = "ISIN"
        /\ IsIsin(n.words[p + 4])
        /\ DetailMatches(n, p + 5)}

\* where re.search finds "<marker> zu ISIN ([A-Z0-9]{12}) - ..."
PlanAt(n, marker) ==
    {p \in 1..Len(n.words) :
        /\ p + 4 <= Len(n.words)
        /\ n.words[p] = marker
        /\ n.words[p + 1] = "zu"
        /\ n.words[p + 2] = "ISIN"
        /\ IsIsin(n.words[p + 3])
        /\ DetailMatches(n, p + 4)}

Leftmost(positions) == CHOOSE p \in positions : \A q \in positions : p <= q

\* "keyword" in zweck
HasWord(n, keyword) == \E k \in 1..Len(n.words) : n.words[k] = keyword

\* re.search(r"ISIN ([A-Z0-9]{12})", zweck): the id found, "" when none
FirstIsin(n) ==
    LET at == {k \in 1..Len(n.words) - 1 :
                  n.words[k] = "ISIN" /\ IsIsin(n.words[k + 1])}
    IN  IF at = {} THEN "" ELSE n.words[Leftmost(at) + 1]

\* "WP-Abrechnung Verkauf:.*?ISIN ([A-Z0-9]{12})\s+STK\s+([\d,.\s]+)"
WpMatches(n) ==
    LET words == n.words
        last == Len(words)
    IN  /\ \E p \in 1..last : /\ p + 4 <= last
                              /\ words[p] = "WP-Abrechnung"
                              /\ words[p + 1] = "Verkauf:"
        /\ last >= 3
        /\ words[last - 2] = "ISIN" /\ IsIsin(words[last - 1]) /\ words[last] = "STK"
        /\ n.rest # <<>> /\ InQuantityClass(n.rest[1])

WithTyp(typ) == [BlankTransaction EXCEPT !.typ = typ]

\* parse_verwendungszweck(zweck, transaction) on a new Transaction
parse_verwendungszweck(n) ==
    IF OrderAt(n) # {}
    THEN LET p == Leftmost(OrderAt(n))
         IN  TradeFields(n, p + 5, "Order", n.words[p + 2], n.words[p + 4])
    ELSE IF PlanAt(n, "Sparplan-Order") # {}
    THEN LET p == Leftmost(PlanAt(n, "Sparplan-Order"))
         IN  TradeFields(n, p + 4, "Sparplan", "", n.words[p + 3])
    ELSE IF PlanAt(n, "Bruchstuecke-Order") # {}
    THEN LET p == Leftmost(PlanAt(n, "Bruchstuecke-Order"))
         IN  TradeFields(n, p + 4, "Bruchstuecke", "", n.words[p + 3])
    ELSE IF HasWord(n, "Gutschrift") THEN WithTyp("Einzahlung")
    ELSE IF HasWord(n, "Auszahlung") THEN WithTyp("Auszahlung")
    ELSE IF HasWord(n, "Lastschrift") THEN WithTyp("Lastschrift")
    ELSE IF HasWord(n, "Coupons/Dividende")
    THEN [WithTyp("Dividende") EXCEPT !.isin = FirstIsin(n)]
    ELSE IF HasWord(n, "Steuerausgleich") THEN WithTyp("Steuerausgleich")
    ELSE IF HasWord(n, "Vorabpauschale")
    THEN [WithTyp("Vorabpauschale") EXCEPT !.isin = FirstIsin(n)]
    ELSE IF HasWord(n, "WP-Abrechnung")
    THEN IF WpMatches(n)
         THEN [WithTyp("WP-Abrechnung") EXCEPT
                  !.isin = n.words[Len(n.words) - 1],
                  !.stueck = parse_german_number(
                                 StueckStr(QuantityGroup(n.rest))).value,
                  !.is_verkauf = TRUE]
         ELSE WithTyp("WP-Abrechnung")
    ELSE IF HasWord(n, "KKT-Abschluss") THEN WithTyp("KKT-Abschluss")
    ELSE WithTyp("Sonstig")

\* str.lstrip()
RECURSIVE LStrip(_)
LStrip(s) == IF s # <<>> /\ s[1] = " " THEN LStrip(Tail(s)) ELSE s

\* ([\d.,]+) after "quantity:\s*": the longest run of the class
RECURSIVE PagedGroupFrom(_)
PagedGroupFrom(rest) ==
    IF rest = <<>> \/ ~InPagedQuantityClass(rest[1]) THEN <<>>
    ELSE <<rest[1]>> \o PagedGroupFrom(Tail(rest))

PagedQuantityGroup(n) == PagedGroupFrom(LStrip(n.rest))

\* "(Buy|Sell)\s+trade\s+([A-Z0-9]{12})\s+(.+?),\s*quantity:\s*([\d.,]+)" at the
\* start: a name of at least one word, the comma, quantity: as last word and
\* a quantity of at least one character
TradeMatches(n, directions) ==
    LET words == n.words
        last == Len(words)
    IN  /\ last >= 6
        /\ words[1] \in directions
        /\ words[2] = "trade"
        /\ IsIsin(words[3])
        /\ words[last - 1] = "," /\ words[last] = "quantity:"

\* variant: the ValueError of float() is not caught
PagedStueck_Uncaught(text) == FloatOfText(text)

\* try: float(text) except ValueError: 0.0
PagedStueck(text) ==
    LET r == FloatOfText(text)
    IN  IF r.raised THEN Returned(Zero) ELSE r

\* beschreibung.startswith(prefix)
StartsWith(n, prefix) ==
    /\ Len(n.words) >= Len(prefix)
    /\ SubSeq(n.words, 1, Len(prefix)) = prefix

\* "first second" in beschreibung
HasWords(n, first, second) ==
    \E k \in 1..Len(n.words) - 1 : n.words[k] = first /\ n.words[k + 1] = second

\* variant: the two transfer kinds are exchanged
TransferTyp_Exchanged(n) ==
    IF StartsWith(n, <<"Incoming", "transfer">>) THEN "Auszahlung"
    ELSE IF StartsWith(n, <<"Outgoing", "transfer">>) THEN "Einzahlung"
    ELSE ""

\* the kind of a narrative that starts with a transfer marker, "" otherwise
TransferTyp(n) ==
    IF StartsWith(n, <<"Incoming", "transfer">>) THEN "Einzahlung"
    ELSE IF StartsWith(n, <<"Outgoing", "transfer">>) THEN "Auszahlung"
    ELSE ""

\* parse_trade_republic_beschreibung(beschreibung, transaction) on a new
\* Transaction: the Transaction, or the exception raised
parse_trade_republic_beschreibung(n) ==
    IF TradeMatches(n, {"Buy", "Sell"}) /\ PagedQuantityGroup(n) # <<>>
    THEN LET stueck == CHOOSE parsed_stueck \in
                           {PagedStueck(quantity_str) : quantity_str \in
                               {Replace(PagedQuantityGroup(n), ",", <<>>)}} : TRUE
         IN  IF stueck.raised THEN Raised
             ELSE Returned([BlankTransaction EXCEPT
                      !.typ = "Order",
                      !.is_kauf = (n.words[1] = "Buy"),
                      !.is_verkauf = (n.words[1] = "Sell"),
                      !.isin = n.words[3],
                      !.name = SubSeq(n.words, 4, Len(n.words) - 2),
                      !.stueck = stueck.value])
    ELSE IF TransferTyp(n) # "" THEN Returned(WithTyp(TransferTyp(n)))
    ELSE IF HasWords(n, "Tax", "Optimisation") \/ HasWords(n, "Tax", "optimisation")
    THEN Returned(WithTyp("Steuerausgleich"))
    ELSE IF /\ StartsWith(n, <<"Cash", "Dividend", "for", "ISIN">>)
            /\ Len(n.words) >= 5 /\ IsIsin(n.words[5])
    THEN Returned([WithTyp("Dividende") EXCEPT !.isin = n.words[5]])
    ELSE Returned(WithTyp("Sonstig"))

\* trade_direction.lower()
Lower(word) ==
    CASE word \in {"Buy", "buy", "BUY"} -> "buy"
      [] word \in {"Sell", "sell", "SELL"} -> "sell"
      [] OTHER -> word

\* "^(\d{4})\s+([\d.]+)$": the quantity of the year line
IsYearLineQuantity(rest) ==
    /\ rest # <<>>
    /\ \A k \in 1..Len(rest) : IsDigit(rest[k]) \/ rest[k] = "."

\* read_trade_republic_pdf: the Transaction built for a trade record whose
\* anchor line carries direction, id and name (the patterns ignore case) and
\* whose year line carries the quantity
PagedTradeRecord(n) ==
    LET is_buy == Lower(n.words[1]) = "buy"
    IN  [BlankTransaction EXCEPT
            !.typ = "Order",
            !.isin = n.words[3],
            !.name = SubSeq(n.words, 4, Len(n.words) - 2),
            !.stueck = PagedStueck(n.rest).value,
            !.is_kauf = is_buy,
            !.is_verkauf = ~is_buy]

\* the quantity texts tried
QuantityTexts == SeqsUpTo({"1", "0", ",", ".", "-", " "}, MaxQtyChars)

\* the narratives tried that end with the STK marker
DetailWords ==
    {prefix \o <<"-", direction, "(">> \o name \o <<"ISIN", "DE000BASF111", "STK">> :
        prefix \in {<<"Order", "Nr", "123456", "ISIN", "DE000BASF111">>,
                    <<"Order", "Nr", "123456", "ISIN", "XS123">>,
                    <<"Sparplan-Order", "zu", "ISIN", "DE000BASF111">>,
                    <<"Bruchstuecke-Order", "zu", "ISIN", "DE000BASF111">>},
        direction \in {"Kauf", "Verkauf", "Tausch"},
        name \in {<<"BASF", "SE">>, <<>>}}
    \cup
    {<<"WP-Abrechnung", direction>> \o name \o <<"ISIN", "DE000BASF111", "STK">> :
        direction \in {"Verkauf:", "Kauf:"},
        name \in {<<"KO">>, <<>>}}

Keywords ==
    {"Gutschrift", "Auszahlung", "Lastschrift", "Coupons/Dividende",
     "Steuerausgleich", "Vorabpauschale", "WP-Abrechnung", "KKT-Abschluss", "Miete"}

\* the narratives tried that consist of words only
PlainWords ==
    {<<first, second>> : first \in Keywords, second \in Keywords}
    \cup {<<keyword, "ISIN", "DE000BASF111">> : keyword \in Keywords}
    \cup {<<>>, <<"Miete">>,
          <<"Incoming", "transfer">>, <<"Incoming", "transfer", "Miete">>,
          <<"Outgoing", "transfer">>, <<"Miete", "Incoming", "transfer">>,
          <<"Tax", "Optimisation">>, <<"Miete", "Tax", "optimisation">>,
          <<"Tax", "Miete">>,
          <<"Cash", "Dividend", "for", "ISIN", "DE000BASF111">>,
          <<"Cash", "Dividend", "for", "ISIN", "XS123">>}

\* the narratives tried that end with the quantity: marker
PagedTradeWords ==
    {<<direction, "trade", "DE000BASF111">> \o name \o <<",", "quantity:">> :
        direction \in {"Buy", "Sell", "buy"},
        name \in {<<"BASF", "SE">>, <<>>}}

Narratives ==
    {Narrative(words, rest) :
        words \in DetailWords \cup PagedTradeWords, rest \in QuantityTexts}
    \cup {Narrative(words, <<>>) : words \in PlainWords}

InitClassify ==
    /\ pc = "classify"
    /\ narrative \in Narratives
    /\ classified = Returned(BlankTransaction)
    /\ all_transactions = <<>>
    /\ DedupIdle /\ ReportIdle
    /\ FilesIdle /\ NumberIdle /\ DateIdle /\ ReaderIdle

\* read_csv: parse_verwendungszweck(t.verwendungszweck, t)
ClassifyDelimited ==
    /\ pc = "classify"
    /\ classified' = Returned(parse_verwendungszweck(narrative))
    /\ pc' = "delimited_done"
    /\ UNCHANGED narrative
    /\ UNCHANGED <<loadVars, transactions, positionVars, totalsVars, timelineVars>>
    /\ UNCHANGED <<fileVars, numberVars, dateVars, readerVars>>

\* read_trade_republic_pdf: parse_trade_republic_beschreibung(beschreibung, t)
ClassifyPaged ==
    /\ pc = "classify"
    /\ classified' = parse_trade_republic_beschreibung(narrative)
    /\ pc' = "paged_done"
    /\ UNCHANGED narrative
    /\ UNCHANGED <<loadVars, transactions, positionVars, totalsVars, timelineVars>>
    /\ UNCHANGED <<fileVars, numberVars, dateVars, readerVars>>

\* read_trade_republic_pdf: a trade record split over anchor and year line
ReadPagedTrade ==
    /\ pc = "classify"
    /\ TradeMatches(narrative, {"Buy", "Sell", "buy", "sell", "BUY", "SELL"})
    /\ IsYearLineQuantity(narrative.rest)
    /\ classified' = Returned(PagedTradeRecord(narrative))
    /\ pc' = "paged_trade_done"
    /\ UNCHANGED narrative
    /\ UNCHANGED <<loadVars, transactions, positionVars, totalsVars, timelineVars>>
    /\ UNCHANGED <<fileVars, numberVars, dateVars, readerVars>>

NextClassify ==
    \/ ClassifyDelimited
    \/ ClassifyPaged
    \/ ReadPagedTrade

SpecClassify == InitClassify /\ [][NextClassify]_vars

(***************************************************************************)
(* read_trade_republic_pdf.  A line is the sequence of its words, the      *)
(* texts between runs of whitespace, after strip(); the comma that ends a  *)
(* name is a word of its own (it is written without a blank before it).    *)
(* Of the patterns' character classes the words below are tried; no word   *)
(* but "Seite" contains a header or footer text; "EUR" stands for the     *)
(* currency sign.                                                          *)
(***************************************************************************)
MaxRecords == 2

\* the characters of the quantity words tried
QuantityChars ==
    ("7" :> <<"7">>) @@ ("0.1" :> <<"0", ".", "1">>)
    @@ ("1.0.1" :> <<"1", ".", "0", ".", "1">>)
    @@ ("1,000" :> <<"1", ",", "0", "0", "0">>)

\* the characters of the words tried that match -?[\d.]+,\d{2}
AmountChars ==
    ("100,00" :> <<"1", "0", "0", ",", "0", "0">>)
    @@ ("1.000,10" :> <<"1", ".", "0", "0", "0", ",", "1", "0">>)
    @@ ("-7,00" :> <<"-", "7", ",", "0", "0">>)

\* the words tried that [\w]+\.? does not match
NonWords == {",", "quantity:", "EUR", ",000"} \cup DOMAIN AmountChars
            \cup (DOMAIN QuantityChars \ {"7"})

\* a word of the month names' dictionary: <<name, whether a period follows>>
MonthWord(tok) ==
    CASE tok = "Feb." -> <<"Feb", TRUE>>
      [] tok = "Februar." -> <<"Februar", TRUE>>
      [] OTHER -> <<tok, FALSE>>

\* GERMAN_MONTHS.get(month_str) or GERMAN_MONTHS.get(month_str.rstrip("."))
MonthOf(tok) ==
    LET w == MonthWord(tok)
        month == GERMAN_MONTHS(w[1], w[2])
    IN  IF month # 0 THEN month ELSE GERMAN_MONTHS(w[1], FALSE)

\* ^(\d{1,2})\s+([\w]+\.?) at the start of a line
StartsWithDate(line) ==
    /\ Len(line) >= 2
    /\ IsNumberToken(line[1]) /\ TokenDigits(line[1]) <= 2
    /\ line[2] \notin NonWords

\* the skipped lines: empty, or with a header or footer text
IsBoilerplate(line) ==
    line = <<>> \/ \E k \in 1..Len(line) : line[k] = "Seite"

\* Format 1: "^(\d{1,2})\s+([\w]+\.?)$"
date_start_match(line) == StartsWithDate(line) /\ Len(line) = 2

\* "(Buy|Sell)\s+trade\s+([A-Z0-9]{12})\s+" after the date, ignoring case
StartsWithTrade(line) ==
    /\ StartsWithDate(line)
    /\ Len(line) >= 5
    /\ Lower(line[3]) \in {"buy", "sell"}
    /\ line[4] = "trade"
    /\ IsIsin(line[5])

\* Format 2: "... (.+?),\s*quantity:\s*$"
date_with_trade_match(line) ==
    /\ StartsWithTrade(line)
    /\ Len(line) >= 8
    /\ line[Len(line) - 1] = "," /\ line[Len(line)] = "quantity:"

\* Format 3: "... (.+)$"
date_with_partial_trade_match(line) ==
    /\ StartsWithTrade(line)
    /\ Len(line) >= 6

\* whether an amount and the currency sign are the words k and k + 1
AmountAt(line, k) ==
    k + 1 <= Len(line) /\ line[k] \in DOMAIN AmountChars /\ line[k + 1] = "EUR"

\* re.findall(r"(-?[\d.]+,\d{2})\s*EUR", text): the amounts before a currency
\* sign, from word k on
RECURSIVE AmountsFrom(_, _)
AmountsFrom(line, k) ==
    IF k > Len(line) THEN <<>>
    ELSE IF AmountAt(line, k) THEN <<line[k]>> \o AmountsFrom(line, k + 2)
    ELSE AmountsFrom(line, k + 1)

Amounts(line) == AmountsFrom(line, 1)

\* re.sub(r"\s*-?[\d.]+,\d{2}\s*EUR", "", text).strip(), from word k on
RECURSIVE WithoutAmountsFrom(_, _)
WithoutAmountsFrom(line, k) ==
    IF k > Len(line) THEN <<>>
    ELSE IF AmountAt(line, k) THEN WithoutAmountsFrom(line, k + 2)
    ELSE <<line[k]>> \o WithoutAmountsFrom(line, k + 1)

WithoutAmounts(line) == WithoutAmountsFrom(line, 1)

\* abs(parse_german_number(amount)) of each amount tried
AbsAmounts ==
    [amount \in DOMAIN AmountChars |->
        RAbs(parse_german_number(AmountChars[amount]).value)]

AbsAmount(amount) == AbsAmounts[amount]

\* variant: a purchase takes the first amount
BuyBetrag_First(amounts) == RNeg(AbsAmount(amounts[1]))

\* -abs(amounts[-2]) if len(amounts) >= 2 else -abs(amounts[0])
BuyBetrag(amounts) ==
    IF Len(amounts) >= 2 THEN RNeg(AbsAmount(amounts[Len(amounts) - 1]))
    ELSE RNeg(AbsAmount(amounts[1]))

\* abs(amounts[0])
SellBetrag(amounts) == AbsAmount(amounts[1])

\* betrag of a trade record (Format 2 and Format 3)
TradeBetrag(amounts, is_buy) ==
    IF amounts = <<>> THEN Zero
    ELSE IF is_buy THEN BuyBetrag(amounts)
    ELSE SellBetrag(amounts)

\* variant: an iteration appends its Transaction twice
Iteration_Twice(next, emitted) ==
    [next |-> next, emitted |-> emitted \o emitted, raised |-> FALSE]

\* the outcome of one iteration of the loop: the cursor after it and the
\* Transactions appended, or an exception
Iteration(next, emitted) == [next |-> next, emitted |-> emitted, raised |-> FALSE]

Exception(k) == [next |-> k, emitted |-> <<>>, raised |-> TRUE]

\* variant: the ValueError of datetime() leaves the loop
ValueErrorCaught_Uncaught(next) == Exception(next)

\* except ValueError: continue
ValueErrorCaught(next) == Iteration(next, <<>>)

\* variant: the last line is read as well
AtEnd_Late(lns, k, n) == k - 1 + n > Len(lns)

\* if i + n >= len(lines), for the line i = k - 1
AtEnd(lns, k, n) == k - 1 + n >= Len(lns)

\* Transaction(datum=datum, betrag=betrag, ...) with the classified fields
PagedTransaction(datum, betrag, fields) ==
    [datum |-> datum, betrag |-> betrag] @@ fields

\* a word of four digits
IsYearWord(tok) == IsNumberToken(tok) /\ TokenDigits(tok) = 4

\* "^(\d{4})\s+([\d.]+)$"
year_qty_match(line) ==
    /\ Len(line) = 2
    /\ IsYearWord(line[1])
    /\ line[2] \in DOMAIN QuantityChars
    /\ IsYearLineQuantity(QuantityChars[line[2]])

\* Format 2: the record of a complete anchor line, an amounts line and a
\* year line with the quantity
CompleteTrade(lns, k) ==
    LET anchor == lns[k]
    IN  IF AtEnd(lns, k, 2) THEN Iteration(k + 1, <<>>)
        ELSE IF k + 2 > Len(lns) THEN Exception(k)
        ELSE LET amounts == Amounts(lns[k + 1])
                 year_qty_line == lns[k + 2]
                 month == MonthOf(anchor[2])
             IN  IF ~year_qty_match(year_qty_line) THEN Iteration(k + 2, <<>>)
                 ELSE IF month = 0 THEN Iteration(k + 2, <<>>)
                 ELSE LET datum == MakeDate(TokenValue(year_qty_line[1]), month,
                                            TokenValue(anchor[1]))
                          n == Narrative(SubSeq(anchor, 3, Len(anchor)),
                                         QuantityChars[year_qty_line[2]])
                      IN  IF datum.raised THEN ValueErrorCaught(k + 2)
                          ELSE Iteration(k + 3,
                                   <<PagedTransaction(datum.value,
                                         TradeBetrag(amounts, Lower(anchor[3]) = "buy"),
                                         PagedTradeRecord(n))>>)

\* "^(\d{4})\s+(.*)$"
year_rest_match(line) == Len(line) >= 2 /\ IsYearWord(line[1])

\* [\d.]+ at the start of a quantity text: the longest run of the class
RECURSIVE DotGroupFrom(_)
DotGroupFrom(chars) ==
    IF chars = <<>> \/ ~(IsDigit(chars[1]) \/ chars[1] = ".") THEN <<>>
    ELSE <<chars[1]>> \o DotGroupFrom(Tail(chars))

\* whether "quantity:\s*([\d.]+)" matches at word q of rest
QuantityAt(rest, q) ==
    /\ q + 1 <= Len(rest)
    /\ rest[q] = "quantity:"
    /\ rest[q + 1] \in DOMAIN QuantityChars
    /\ DotGroupFrom(QuantityChars[rest[q + 1]]) # <<>>

\* what is left of a quantity word after [\d.]+ : a word that joins the
\* word before it
LeftOfQuantity(tok) ==
    IF DotGroupFrom(QuantityChars[tok]) = QuantityChars[tok] THEN <<>>
    ELSE <<",000">>

\* re.sub(r",?\s*quantity:\s*[\d.]+", "", rest_content).strip()
RECURSIVE WithoutQuantity(_)
WithoutQuantity(rest) ==
    IF rest = <<>> THEN <<>>
    ELSE IF QuantityAt(rest, 1)
    THEN LeftOfQuantity(rest[2]) \o WithoutQuantity(SubSeq(rest, 3, Len(rest)))
    ELSE IF rest[1] = "," /\ QuantityAt(rest, 2)
    THEN LeftOfQuantity(rest[3]) \o WithoutQuantity(SubSeq(rest, 4, Len(rest)))
    ELSE <<rest[1]>> \o WithoutQuantity(Tail(rest))

\* str.rstrip(",")
RECURSIVE RStripComma(_)
RStripComma(name) ==
    IF name # <<>> /\ name[Len(name)] = ","
    THEN RStripComma(SubSeq(name, 1, Len(name) - 1))
    ELSE name

\* (name_part1 + " " + name_part2).strip().rstrip(",")
full_name(name_part1, name_part2) == RStripComma(name_part1 \o name_part2)

\* Format 3: the record of an anchor line with the first part of the name, an
\* amounts line and a year line with the rest of the name and the quantity
PartialTrade(lns, k) ==
    LET anchor == lns[k]
    IN  IF AtEnd(lns, k, 2) THEN Iteration(k + 1, <<>>)
        ELSE IF k + 2 > Len(lns) THEN Exception(k)
        ELSE LET amounts == Amounts(lns[k + 1])
                 year_rest_line == lns[k + 2]
                 rest_content == Tail(year_rest_line)
                 found == {q \in 1..Len(rest_content) : QuantityAt(rest_content, q)}
                 first == CHOOSE q \in found : \A o \in found : q <= o
                 quantity == IF found # {}
                             THEN CHOOSE q \in
                                      {PagedStueck(text).value : text \in
                                          {DotGroupFrom(QuantityChars[
                                               rest_content[first + 1]])}} : TRUE
                             ELSE Zero
                 name_part2 == IF found # {} THEN WithoutQuantity(rest_content)
                               ELSE rest_content
                 month == MonthOf(anchor[2])
                 is_buy == Lower(anchor[3]) = "buy"
             IN  IF ~year_rest_match(year_rest_line) THEN Iteration(k + 2, <<>>)
                 ELSE IF month = 0 THEN Iteration(k + 2, <<>>)
                 ELSE LET datum == MakeDate(TokenValue(year_rest_line[1]), month,
                                            TokenValue(anchor[1]))
                      IN  IF datum.raised THEN ValueErrorCaught(k + 2)
                          ELSE Iteration(k + 3,
                                   <<PagedTransaction(datum.value,
                                         TradeBetrag(amounts, is_buy),
                                         [BlankTransaction EXCEPT
                                             !.typ = "Order",
                                             !.isin = anchor[5],
                                             !.name = full_name(
                                                 SubSeq(anchor, 6, Len(anchor)),
                                                 name_part2),
                                             !.stueck = quantity,
                                             !.is_kauf = is_buy,
                                             !.is_verkauf = ~is_buy])>>)

\* typ_patterns: the kind of a data line, "" when no marker matches; the two
\* markers with an umlaut are written Ueberweisung and Ertraege
TypOf(data_line) ==
    IF Len(data_line) >= 2
       /\ data_line[1] \in {"Ueberweisung", "Handel", "Steuern", "Ertraege"}
    THEN data_line[1]
    ELSE ""

\* "^(\d{4})(?:\s+(.*))?$"
year_match(line) == line # <<>> /\ IsYearWord(line[1])

\* re.search(r"\b(20\d{2})\b", data_line): the year found, 0 for none
RECURSIVE YearInData(_)
YearInData(data_line) ==
    IF data_line = <<>> THEN 0
    ELSE IF IsYearWord(data_line[1]) /\ TokenValue(data_line[1]) \in 2000..2099
    THEN TokenValue(data_line[1])
    ELSE YearInData(Tail(data_line))

\* the description as the classifier's narrative: its words up to the marker
\* quantity: and the characters of the quantity after it
AsNarrative(beschreibung) ==
    LET last == Len(beschreibung)
    IN  IF /\ last >= 2
           /\ beschreibung[last - 1] = "quantity:"
           /\ beschreibung[last] \in DOMAIN QuantityChars
        THEN Narrative(SubSeq(beschreibung, 1, last - 1),
                       QuantityChars[beschreibung[last]])
        ELSE Narrative(beschreibung, <<>>)

\* betrag of a record with a type marker
MarkerBetrag(tr_typ, n, amounts) ==
    IF amounts = <<>> THEN Zero
    ELSE IF tr_typ = "Handel"
    THEN (IF HasWords(n, "Buy", "trade") THEN BuyBetrag(amounts)
          ELSE IF HasWords(n, "Sell", "trade") THEN SellBetrag(amounts)
          ELSE Zero)
    ELSE IF tr_typ = "Ueberweisung"
    THEN (IF HasWord(n, "Incoming") THEN SellBetrag(amounts)
          ELSE IF HasWord(n, "Outgoing") THEN BuyBetrag(amounts)
          ELSE Zero)
    ELSE SellBetrag(amounts)

\* lines 464-503: the Transaction of a record with the date datum, the type
\* marker tr_typ, the amounts found and the description n
DescribedRecord(cursor, datum, tr_typ, amounts, n) ==
    LET fields == parse_trade_republic_beschreibung(n)
    IN  IF fields.raised THEN Exception(cursor)
        ELSE Iteration(cursor + 1,
                 <<PagedTransaction(datum, MarkerBetrag(tr_typ, n, amounts),
                                    fields.value)>>)

\* Format 1: the record of an anchor line with the date only, a data line
\* with type marker and description, and the year on the next line or in
\* the data line
DateRecord(lns, k) ==
    LET anchor == lns[k]
    IN  IF AtEnd(lns, k, 1) THEN Iteration(k + 1, <<>>)
        ELSE LET data_line == IF k + 1 <= Len(lns) THEN lns[k + 1] ELSE <<>>
                 tr_typ == TypOf(data_line)
                 on_next == k + 2 <= Len(lns) /\ year_match(lns[k + 2])
                 cursor == IF on_next THEN k + 2 ELSE k + 1
                 rest_data == IF on_next THEN Tail(data_line) \o Tail(lns[k + 2])
                              ELSE Tail(data_line)
                 year == IF on_next /\ TokenValue(lns[k + 2][1]) # 0
                         THEN TokenValue(lns[k + 2][1])
                         ELSE YearInData(data_line)
                 month == MonthOf(anchor[2])
             IN  IF tr_typ = "" THEN Iteration(k + 1, <<>>)
                 ELSE IF year = 0 THEN Iteration(cursor, <<>>)
                 ELSE IF month = 0 THEN Iteration(cursor, <<>>)
                 ELSE LET datum == MakeDate(year, month, TokenValue(anchor[1]))
                      IN  IF datum.raised THEN ValueErrorCaught(cursor)
                          ELSE CHOOSE r \in
                                   {DescribedRecord(cursor, datum.value, tr_typ,
                                                    amounts, beschreibung) :
                                       amounts \in {Amounts(rest_data)},
                                       beschreibung \in
                                           {AsNarrative(WithoutAmounts(rest_data))}} :
                                   TRUE

\* the branch the loop takes at line k
Branch(lns, k) ==
    IF IsBoilerplate(lns[k]) THEN "boilerplate"
    ELSE IF date_with_trade_match(lns[k]) THEN "complete"
    ELSE IF date_with_partial_trade_match(lns[k]) THEN "partial"
    ELSE IF date_start_match(lns[k]) THEN "date"
    ELSE "other"

\* one iteration of "while i < len(lines)" at line k
ScanLine(lns, k) ==
    CASE Branch(lns, k) = "complete" -> CompleteTrade(lns, k)
      [] Branch(lns, k) = "partial" -> PartialTrade(lns, k)
      [] Branch(lns, k) = "date" -> DateRecord(lns, k)
      [] OTHER -> Iteration(k + 1, <<>>)

\* the loop from line k on: the Transactions appended, or an exception
RECURSIVE ReadFrom(_, _)
ReadFrom(lns, k) ==
    IF k > Len(lns) THEN Returned(<<>>)
    ELSE LET r == ScanLine(lns, k)
         IN  IF r.raised THEN Raised
             ELSE LET later == ReadFrom(lns, r.next)
                  IN  IF later.raised THEN Raised
                      ELSE Returned(r.emitted \o later.value)

\* the lines tried, in groups as a statement shows them
Isin == "DE000BASF111"

AmountLines ==
    [n \in 0..3 |->
        <<"Handel">> \o SubSeq(<<"100,00", "EUR", "1.000,10", "EUR", "-7,00", "EUR">>,
                               1, 2 * n)]

YearLine == <<"2024", "7">>

CompleteAnchor(day, month, direction) ==
    <<day, month, direction, "trade", Isin, "BASF", "SE", ",", "quantity:">>

CompleteRecords ==
    {<<CompleteAnchor("7", "Feb", "Buy"), AmountLines[n], YearLine>> : n \in 0..3}
    \cup {<<CompleteAnchor("7", "Feb", "Sell"), AmountLines[n], YearLine>> :
            n \in {0, 3}}
    \cup {<<CompleteAnchor(dm[1], dm[2], "sell"), AmountLines[2], YearLine>> :
            dm \in {<<"7", "Feb.">>, <<"7", "Foo">>, <<"31", "Feb">>}}
    \cup {<<CompleteAnchor("7", "Feb", "Buy"), AmountLines[2], year_line>> :
            year_line \in {<<"2024", "1.0.1">>, <<"2024", "1,000">>,
                           <<"0000", "7">>, <<"BASF">>}}

PartialAnchor(day, month, direction) ==
    <<day, month, direction, "trade", Isin, "BASF">>

RestLine == <<"2024", "SE", ",", "quantity:", "7">>

PartialRecords ==
    {<<PartialAnchor("7", "Feb", "Buy"), AmountLines[2], RestLine>>,
     <<PartialAnchor("7", "Feb", "Sell"), AmountLines[1], RestLine>>}
    \cup {<<PartialAnchor(dm[1], dm[2], "Buy"), AmountLines[1], RestLine>> :
            dm \in {<<"7", "Foo">>, <<"31", "Feb">>}}
    \cup {<<PartialAnchor("7", "Feb", "Sell"), AmountLines[1], rest_line>> :
            rest_line \in {<<"2024", "SE">>, <<"2024", "quantity:", "7">>,
                           <<"2024", "SE", ",", "quantity:", "1,000">>,
                           <<"2024", "SE", ",", "quantity:", "1.0.1">>,
                           <<"0000", "SE", ",", "quantity:", "7">>,
                           <<"2024">>}}

Amount == <<"100,00", "EUR">>

DataLines ==
    {<<"Handel", direction, "trade", Isin, "BASF", ",", "quantity:", "7">>
         \o SubSeq(AmountLines[n], 2, 1 + 2 * n) :
        direction \in {"Buy", "Sell"}, n \in {1, 3}}
    \cup {<<"Steuern", "Tax", "Optimisation">> \o Amount,
          <<"Ueberweisung", "Incoming", "transfer">> \o Amount,
          <<"Ueberweisung", "Outgoing", "transfer">> \o Amount \o Amount,
          <<"Ertraege", "Cash", "Dividend", "for", "ISIN", Isin>> \o Amount,
          <<"Zinsen", "BASF">> \o Amount}

DateRecords ==
    {<<<<"7", "Feb">>, data_line, <<"2024">>>> : data_line \in DataLines}
    \cup {<<<<dm[1], dm[2]>>, <<"Steuern", "Tax", "Optimisation">> \o Amount, <<"2024">>>> :
            dm \in {<<"7", "Foo">>, <<"31", "Feb">>}}
    \cup {<<<<"7", "Feb">>, <<"Steuern", "Tax", "Optimisation">> \o Amount, <<"0000">>>>,
          <<<<"7", "Feb">>, <<"Steuern", "Tax", "Optimisation">> \o Amount>>,
          <<<<"7", "Feb">>, <<"Steuern", "Tax", "Optimisation", "2024">> \o Amount>>,
          <<<<"7", "Feb">>, <<"Handel", "Buy", "trade", Isin, "BASF">> \o Amount,
            <<"2024", "SE", ",", "quantity:", "7">>>>}

SingleLines ==
    {<<line>> : line \in {<<>>, <<"Seite", "7">>, <<"BASF">>, <<"7", "Feb">>,
                          CompleteAnchor("7", "Feb", "Buy"),
                          PartialAnchor("7", "Feb", "Buy")}}

RecordUniverse == CompleteRecords \cup PartialRecords \cup DateRecords \cup SingleLines

RECURSIVE Flatten(_)
Flatten(records) ==
    IF records = <<>> THEN <<>> ELSE records[1] \o Flatten(Tail(records))

\* all_text.split("\n"): each page's text ends with "\n", so the last line is
\* empty; without text there is no line to read
LinesOf(records) ==
    IF records = <<>> THEN <<>> ELSE Flatten(records) \o << <<>> >>

InitReader ==
    /\ pc = "scan"
    /\ lines \in {LinesOf(records) : records \in SeqsUpTo(RecordUniverse, MaxRecords)}
    /\ li = 1
    /\ pdf_transactions = <<>>
    /\ all_transactions = <<>>
    /\ DedupIdle /\ ReportIdle
    /\ FilesIdle /\ NumberIdle /\ DateIdle /\ ClassifyIdle

\* the effect of one iteration on the cursor and the list
Iterate(r) ==
    /\ IF r.raised
       THEN pc' = "reader_raised" /\ UNCHANGED <<li, pdf_transactions>>
       ELSE /\ li' = r.next
            /\ pdf_transactions' = pdf_transactions \o r.emitted
            /\ UNCHANGED pc
    /\ UNCHANGED lines
    /\ UNCHANGED <<loadVars, transactions, positionVars, totalsVars, timelineVars>>
    /\ UNCHANGED <<fileVars, numberVars, dateVars, classifyVars>>

\* an empty line or a line of a page header or footer: i += 1; continue
SkipBoilerplate ==
    /\ pc = "scan"
    /\ li <= Len(lines)
    /\ Branch(lines, li) = "boilerplate"
    /\ Iterate(Iteration(li + 1, <<>>))

\* if date_with_trade_match
ReadCompleteTrade ==
    /\ pc = "scan"
    /\ li <= Len(lines)
    /\ Branch(lines, li) = "complete"
    /\ \E r \in {CompleteTrade(lines, li)} : Iterate(r)

\* if date_with_partial_trade_match and not date_with_trade_match
ReadPartialTrade ==
    /\ pc = "scan"
    /\ li <= Len(lines)
    /\ Branch(lines, li) = "partial"
    /\ \E r \in {PartialTrade(lines, li)} : Iterate(r)

\* if date_start_match
ReadDateRecord ==
    /\ pc = "scan"
    /\ li <= Len(lines)
    /\ Branch(lines, li) = "date"
    /\ \E r \in {DateRecord(lines, li)} : Iterate(r)

\* no pattern matches: the final i += 1
SkipLine ==
    /\ pc = "scan"
    /\ li <= Len(lines)
    /\ Branch(lines, li) = "other"
    /\ Iterate(Iteration(li + 1, <<>>))

\* return transactions
ReaderReturn ==
    /\ pc = "scan"
    /\ li > Len(lines)
    /\ pc' = "reader_done"
    /\ UNCHANGED readerVars
    /\ UNCHANGED <<loadVars, transactions, positionVars, totalsVars, timelineVars>>
    /\ UNCHANGED <<fileVars, numberVars, dateVars, classifyVars>>

NextReader ==
    \/ SkipBoilerplate
    \/ ReadCompleteTrade
    \/ ReadPartialTrade
    \/ ReadDateRecord
    \/ SkipLine
    \/ ReaderReturn

SpecReader == InitReader /\ [][NextReader]_vars

\* the records tried for termination: for each record form one that is read,
\* one for each way it is skipped, and the single lines
TerminationUniverse ==
    {<<CompleteAnchor("7", "Feb", "Buy"), AmountLines[2], YearLine>>,
     <<CompleteAnchor("7", "Foo", "Buy"), AmountLines[2], YearLine>>,
     <<CompleteAnchor("31", "Feb", "Buy"), AmountLines[2], YearLine>>,
     <<CompleteAnchor("7", "Feb", "Buy"), AmountLines[2], <<"BASF">>>>,
     <<PartialAnchor("7", "Feb", "Sell"), AmountLines[1], RestLine>>,
     <<PartialAnchor("7", "Foo", "Buy"), AmountLines[1], RestLine>>,
     <<PartialAnchor("31", "Feb", "Buy"), AmountLines[1], RestLine>>,
     <<PartialAnchor("7", "Feb", "Sell"), AmountLines[1], <<"2024">>>>,
     <<<<"7", "Feb">>, <<"Steuern", "Tax", "Optimisation">> \o Amount, <<"2024">>>>,
     <<<<"7", "Foo">>, <<"Steuern", "Tax", "Optimisation">> \o Amount, <<"2024">>>>,
     <<<<"31", "Feb">>, <<"Steuern", "Tax", "Optimisation">> \o Amount, <<"2024">>>>,
     <<<<"7", "Feb">>, <<"Zinsen", "BASF">> \o Amount, <<"2024">>>>,
     <<<<"7", "Feb">>, <<"Steuern", "Tax", "Optimisation">> \o Amount>>,
     <<<<"7", "Feb">>, <<"Steuern", "Tax", "Optimisation", "2024">> \o Amount>>}
    \cup SingleLines

InitTermination ==
    /\ pc = "scan"
    /\ lines \in {LinesOf(records) :
                     records \in SeqsUpTo(TerminationUniverse, MaxRecords)}
    /\ li = 1
    /\ pdf_transactions = <<>>
    /\ all_transactions = <<>>
    /\ DedupIdle /\ ReportIdle
    /\ FilesIdle /\ NumberIdle /\ DateIdle /\ ClassifyIdle

\* the loop is a sequential program: a step that can be taken is taken
SpecReaderFair == InitTermination /\ [][NextReader]_vars /\ WF_vars(NextReader)

\* generate_html alone, on an already de-duplicated list in any order
InitEngine ==
    /\ pc = "positions"
    /\ transactions \in {txs \in SeqsUpTo(TxUniverse, MaxLen) :
                             DedupLoop(txs).unique = txs}
    /\ all_transactions = transactions
    /\ di = Len(transactions) + 1
    /\ seen = {DedupKey(transactions[k]) : k \in 1..Len(transactions)}
    /\ unique_transactions = transactions
    /\ ReportIdle
    /\ FilesIdle /\ NumberIdle /\ DateIdle /\ ClassifyIdle /\ ReaderIdle

NextEngine ==
    \/ ComputePositions
    \/ TotalsStep
    \/ TotalsFinish
    \/ TimelineStep
    \/ TimelineLoopEnd
    \/ AddDividends
    \/ AddSteuerausgleich
    \/ BuildTimeline

SpecEngine == InitEngine /\ [][NextEngine]_vars

\* load_transactions alone, from the files found in the directory
NextLoad ==
    \/ LoadCsvStep
    \/ LoadCsvEnd
    \/ LoadPdfStep
    \/ LoadPdfEnd
    \/ DedupStep
    \/ LoadReturn

SpecLoad == InitLoad /\ [][NextLoad]_vars

(***************************************************************************)
(* Properties                                                              *)
(***************************************************************************)
InTimelineLoop == pc = "timeline" /\ ti <= Len(SortedTrades(transactions))

InTotalsLoop == pc = "totals" /\ ci <= Len(SortedTrades(transactions))

\* accumulated_cost / accumulated_quantity of an instrument in the timeline
\* pass and in the totals pass (zero before the ledger exists)
AccCost(m, isin) == IF isin \in DOMAIN m THEN m[isin].total_cost ELSE Zero

AccQty(m, isin) == IF isin \in DOMAIN m THEN m[isin].total_stueck ELSE Zero

CalcCost(m, isin) == IF isin \in DOMAIN m THEN m[isin].cost ELSE Zero

CalcQty(m, isin) == IF isin \in DOMAIN m THEN m[isin].stueck ELSE Zero

IsSell(t) == t.isin # "" /\ t.is_verkauf /\ ~t.is_kauf

IsBuy(t) == t.isin # "" /\ t.is_kauf

\* the effect of a recognized sale of t in the timeline pass
SaleRecognized(t) ==
    LET cost == AccCost(cost_basis_by_isin, t.isin)
        qty == AccQty(cost_basis_by_isin, t.isin)
        cost_of_sold == RMul(RDiv(cost, qty), t.stueck)
    IN  /\ Len(pnl_events') = Len(pnl_events) + 1
        /\ SubSeq(pnl_events', 1, Len(pnl_events)) = pnl_events
        /\ pnl_events'[Len(pnl_events')].pnl = RSub(t.betrag, cost_of_sold)
        /\ AccCost(cost_basis_by_isin', t.isin) = RSub(cost, cost_of_sold)
        /\ AccQty(cost_basis_by_isin', t.isin) = RSub(qty, t.stueck)

\* the effect of a sale of t that is passed over in the timeline pass
SaleSkipped(t) ==
    /\ pnl_events' = pnl_events
    /\ AccCost(cost_basis_by_isin', t.isin) = AccCost(cost_basis_by_isin, t.isin)
    /\ AccQty(cost_basis_by_isin', t.isin) = AccQty(cost_basis_by_isin, t.isin)

\* C1: a sell with quantity > 0 that meets a ledger with accumulated quantity
\* > 0 emits exactly one P&L event with delta = amount - (cost / quantity) *
\* sold quantity and reduces the ledger's cost by that cost of sold and its
\* quantity by the sold quantity; the totals pass books the same delta.
C1_AverageCostSell ==
    [][/\ InTimelineLoop =>
            LET t == SortedTrades(transactions)[ti]
            IN  (IsSell(t) /\ RGt(t.stueck, Zero)
                 /\ RGt(AccQty(cost_basis_by_isin, t.isin), Zero))
                => SaleRecognized(t)
       /\ InTotalsLoop =>
            LET t == SortedTrades(transactions)[ci]
                cost == CalcCost(cost_basis_calc, t.isin)
                qty == CalcQty(cost_basis_calc, t.isin)
            IN  (IsSell(t) /\ RGt(t.stueck, Zero) /\ RGt(qty, Zero))
                => LET cost_of_sold == RMul(RDiv(cost, qty), t.stueck)
                   IN  /\ total_trade_pnl' =
                              RAdd(total_trade_pnl, RSub(t.betrag, cost_of_sold))
                       /\ CalcCost(cost_basis_calc', t.isin) = RSub(cost, cost_of_sold)
                       /\ CalcQty(cost_basis_calc', t.isin) = RSub(qty, t.stueck)
      ]_vars

\* the buy of 10 and the sell of 4 of X have been processed
C1_Witness ==
    /\ pc = "timeline"
    /\ "X" \in DOMAIN cost_basis_by_isin
    /\ cost_basis_by_isin["X"].total_stueck = R(6)
    /\ cost_basis_by_isin["X"].total_cost = R(600)
    /\ Len(pnl_events) = 1
    /\ pnl_events[1].pnl = R(100)

\* C2: a buy adds |amount| to the instrument's accumulated cost and its
\* quantity to the accumulated quantity, emits no P&L event and leaves the
\* ledgers of all other instruments unchanged (in both passes).
C2_AverageCostBuy ==
    [][/\ InTimelineLoop =>
            LET t == SortedTrades(transactions)[ti]
            IN  IsBuy(t) =>
                /\ AccCost(cost_basis_by_isin', t.isin) =
                       RAdd(AccCost(cost_basis_by_isin, t.isin), RAbs(t.betrag))
                /\ AccQty(cost_basis_by_isin', t.isin) =
                       RAdd(AccQty(cost_basis_by_isin, t.isin), t.stueck)
                /\ pnl_events' = pnl_events
                /\ DOMAIN cost_basis_by_isin' = DOMAIN cost_basis_by_isin \cup {t.isin}
                /\ \A i \in DOMAIN cost_basis_by_isin \ {t.isin} :
                       cost_basis_by_isin'[i] = cost_basis_by_isin[i]
       /\ InTotalsLoop =>
            LET t == SortedTrades(transactions)[ci]
            IN  IsBuy(t) =>
                /\ CalcCost(cost_basis_calc', t.isin) =
                       RAdd(CalcCost(cost_basis_calc, t.isin), RAbs(t.betrag))
                /\ CalcQty(cost_basis_calc', t.isin) =
                       RAdd(CalcQty(cost_basis_calc, t.isin), t.stueck)
                /\ total_trade_pnl' = total_trade_pnl
                /\ \A i \in DOMAIN cost_basis_calc \ {t.isin} :
                       cost_basis_calc'[i] = cost_basis_calc[i]
      ]_vars

\* a buy of X was processed last while Z already has a ledger
C2_Witness ==
    /\ pc = "timeline"
    /\ ti > 1
    /\ LET prev == SortedTrades(transactions)[ti - 1]
       IN  prev.is_kauf /\ prev.isin = "X"
    /\ DOMAIN cost_basis_by_isin = {"X", "Z"}
    /\ RGt(cost_basis_by_isin["X"].total_cost, Zero)

\* C3: a sell processed while the accumulated quantity is zero emits no P&L
\* event and leaves accumulated cost and quantity unchanged.
C3_SellOnEmptyLedger ==
    [][/\ InTimelineLoop =>
            LET t == SortedTrades(transactions)[ti]
            IN  (IsSell(t) /\ AccQty(cost_basis_by_isin, t.isin) = Zero)
                => SaleSkipped(t)
       /\ InTotalsLoop =>
            LET t == SortedTrades(transactions)[ci]
            IN  (IsSell(t) /\ CalcQty(cost_basis_calc, t.isin) = Zero)
                => /\ total_trade_pnl' = total_trade_pnl
                   /\ CalcCost(cost_basis_calc', t.isin) = CalcCost(cost_basis_calc, t.isin)
                   /\ CalcQty(cost_basis_calc', t.isin) = CalcQty(cost_basis_calc, t.isin)
      ]_vars

\* a sell with positive quantity was processed last and found nothing to match
C3_Witness ==
    /\ pc = "timeline"
    /\ ti > 1
    /\ LET prev == SortedTrades(transactions)[ti - 1]
       IN  /\ IsSell(prev)
           /\ RGt(prev.stueck, Zero)
           /\ AccQty(cost_basis_by_isin, prev.isin) = Zero
           /\ AccCost(cost_basis_by_isin, prev.isin) = Zero
    /\ pnl_events = <<>>

\* C4 as stated: a sell whose quantity exceeds the accumulated quantity is a
\* no-op: no P&L event and an unchanged ledger.
C4_OversoldIsNoOp ==
    [][InTimelineLoop =>
          LET t == SortedTrades(transactions)[ti]
          IN  (IsSell(t) /\ RGt(t.stueck, AccQty(cost_basis_by_isin, t.isin)))
              => SaleSkipped(t)
      ]_vars

\* C4 amended: a sell whose quantity exceeds the accumulated quantity is a
\* no-op only when the accumulated quantity is not positive; when it is
\* positive the sale is recognized like any other (one event at average cost)
\* and the ledger's quantity becomes negative (its cost non-positive, if it
\* was not negative before).
C4_OversoldAmended ==
    [][InTimelineLoop =>
          LET t == SortedTrades(transactions)[ti]
              qty == AccQty(cost_basis_by_isin, t.isin)
          IN  (IsSell(t) /\ RGt(t.stueck, qty))
              => IF RGt(qty, Zero)
                 THEN /\ SaleRecognized(t)
                      /\ RLt(AccQty(cost_basis_by_isin', t.isin), Zero)
                      /\ RLe(Zero, AccCost(cost_basis_by_isin, t.isin))
                             => RLe(AccCost(cost_basis_by_isin', t.isin), Zero)
                 ELSE SaleSkipped(t)
      ]_vars

\* an oversold sale of X has been recognized: the ledger holds a negative quantity
C4_Witness ==
    /\ pc = "timeline"
    /\ "X" \in DOMAIN cost_basis_by_isin
    /\ RLt(cost_basis_by_isin["X"].total_stueck, Zero)
    /\ Len(pnl_events) >= 1

\* the Trade events emitted for an instrument (they carry its ledger's name)
TradeEventsOf(isin) ==
    IF isin \in DOMAIN cost_basis_by_isin
    THEN SelectSeq(pnl_events,
                   LAMBDA e : /\ e.type = "Trade"
                              /\ e.name = Slice(cost_basis_by_isin[isin].name, 30))
    ELSE <<>>

Deltas(events) == [k \in 1..Len(events) |-> events[k].pnl]

TradesOf(txs, isin) == SelectSeq(Trades(txs), LAMBDA t : t.isin = isin)

\* units held after a chronological list of trades of one instrument
RECURSIVE Held(_)
Held(ts) ==
    IF ts = <<>> THEN Zero
    ELSE LET t == ts[Len(ts)]
             before == Held(SubSeq(ts, 1, Len(ts) - 1))
         IN  IF t.is_kauf THEN RAdd(before, t.stueck) ELSE RSub(before, t.stueck)

\* every trade has a positive quantity, no sale exceeds what is held when it
\* is processed, and everything bought has been sold
FullyMatched(ts) ==
    /\ \A k \in 1..Len(ts) :
           /\ RGt(ts[k].stueck, Zero)
           /\ ~ts[k].is_kauf => RLe(ts[k].stueck, Held(SubSeq(ts, 1, k - 1)))
    /\ Held(ts) = Zero

ExampleBuy == Tx("Order", "X", NameX, 1, R(-1000), R(10), TRUE, FALSE)

ExampleSell == Tx("Order", "X", NameX, 2, R(500), R(4), FALSE, TRUE)

\* C6: a buy of 10 units for -1000 followed by a sell of 4 units for +500 of
\* the same instrument yields one P&L event of 100 and an Open position with
\* 6 units, average buy price 100, invested 600 and realized P&L 100.
C6_WorkedExample ==
    (pc = "done" /\ TradesOf(transactions, "X") = <<ExampleBuy, ExampleSell>>)
    => /\ Deltas(TradeEventsOf("X")) = <<R(100)>>
       /\ \A k \in 1..Len(closed_positions) : closed_positions[k].base.isin # "X"
       /\ \E k \in 1..Len(open_positions) :
              LET p == open_positions[k]
              IN  /\ p.base.isin = "X"
                  /\ p.base.open_stueck = R(6)
                  /\ p.avg_kauf_preis = R(100)
                  /\ p.invested = R(600)
                  /\ p.realized_pnl = R(100)

C6_Witness ==
    /\ pc = "done"
    /\ TradesOf(transactions, "X") = <<ExampleBuy, ExampleSell>>
    /\ Len(pnl_timeline) >= 1

PositionsComputed == pc \notin {"dedup", "positions"}

TradedIsins(txs) == {Trades(txs)[k].isin : k \in 1..Len(Trades(txs))} \ {""}

CountOf(positions, isin) ==
    Cardinality({k \in 1..Len(positions) : positions[k].base.isin = isin})

\* C7: every instrument id carried by a trade-kind transaction has exactly one
\* Position; it is Closed exactly when |bought - sold| < 0.001 and Open
\* otherwise; no instrument is both open and closed.
C7_OnePositionPerInstrument ==
    PositionsComputed =>
        /\ \A isin \in TradedIsins(transactions) :
               LET ts == TradesOf(transactions, isin)
                   bought == RSum(Stuecke(SelectSeq(ts, LAMBDA t : t.is_kauf)))
                   sold == RSum(Stuecke(SelectSeq(ts, LAMBDA t : t.is_verkauf)))
                   near == RLt(RAbs(RSub(bought, sold)), <<1, 1000>>)
               IN  /\ CountOf(closed_positions, isin) + CountOf(open_positions, isin) = 1
                   /\ CountOf(closed_positions, isin) = 1 <=> near
                   /\ CountOf(open_positions, isin) = 1 <=> ~near
        /\ \A k \in 1..Len(closed_positions) :
               closed_positions[k].base.isin \in TradedIsins(transactions)
        /\ \A k \in 1..Len(open_positions) :
               open_positions[k].base.isin \in TradedIsins(transactions)

\* one instrument is closed within the tolerance with units left over while
\* another one is open
C7_Witness ==
    /\ pc = "done"
    /\ \E k \in 1..Len(closed_positions) : closed_positions[k].base.open_stueck # Zero
    /\ \E k \in 1..Len(open_positions) : closed_positions[1].base.isin # open_positions[k].base.isin

DatesAscend(timeline) ==
    \A j, k \in 1..Len(timeline) : j < k => timeline[j].date <= timeline[k].date

\* C8 as stated: the timeline lists all P&L events in non-decreasing date
\* order and each entry's cumulative value equals the sum of the deltas of
\* that entry and all entries before it.
C8_TimelineCumulative ==
    pc = "done" =>
        /\ Len(pnl_timeline) = Len(pnl_events)
        /\ DatesAscend(pnl_timeline)
        /\ \A k \in 1..Len(pnl_timeline) :
               pnl_timeline[k].cumulative = RSum(Deltas(SubSeq(pnl_events, 1, k)))

\* C8 amended: the timeline lists all P&L events in non-decreasing date order
\* and each entry's cumulative value equals the sum of the deltas of that
\* entry and all entries before it, rounded to 2 decimals.
C8_TimelineCumulativeRounded ==
    pc = "done" =>
        /\ Len(pnl_timeline) = Len(pnl_events)
        /\ DatesAscend(pnl_timeline)
        /\ \A k \in 1..Len(pnl_timeline) :
               /\ pnl_timeline[k].date = pnl_events[k].date
               /\ pnl_timeline[k].cumulative =
                      Round(RSum(Deltas(SubSeq(pnl_events, 1, k))), 100)

\* a timeline of several entries one of which carries a rounded cumulative value
C8_Witness ==
    /\ pc = "done"
    /\ Len(pnl_timeline) >= 2
    /\ \E k \in 1..Len(pnl_timeline) :
           /\ pnl_timeline[k].cumulative # RSum(Deltas(SubSeq(pnl_events, 1, k)))
           /\ k > 1
           /\ pnl_timeline[k].cumulative # pnl_timeline[k].change

\* the events appended by one of the two loops over flat transactions
FlatEventsAppended(typ) ==
    LET src == SelectSeq(transactions, LAMBDA t : t.typ = typ)
    IN  /\ Len(pnl_events') = Len(pnl_events) + Len(src)
        /\ SubSeq(pnl_events', 1, Len(pnl_events)) = pnl_events
        /\ \A k \in 1..Len(src) :
               LET e == pnl_events'[Len(pnl_events) + k]
               IN  e.pnl = src[k].betrag /\ e.date = src[k].datum /\ e.type = typ
        /\ cost_basis_by_isin' = cost_basis_by_isin
        /\ cost_basis_calc' = cost_basis_calc

\* C9: every Dividend and every TaxAdjustment transaction yields exactly one
\* P&L event whose delta is the transaction's full amount, whatever the
\* ledgers hold, and no ledger changes.
C9_FlatEvents ==
    [][/\ pc = "dividends" => FlatEventsAppended("Dividende")
       /\ pc = "steuerausgleich" => FlatEventsAppended("Steuerausgleich")
      ]_vars

\* a dividend of a held instrument and a negative tax adjustment were booked
C9_Witness ==
    /\ pc = "cumulate"
    /\ "X" \in DOMAIN cost_basis_by_isin
    /\ RGt(cost_basis_by_isin["X"].total_stueck, Zero)
    /\ \E k \in 1..Len(pnl_events) :
           pnl_events[k].type = "Dividende" /\ pnl_events[k].pnl = R(7)
    /\ \E k \in 1..Len(pnl_events) :
           pnl_events[k].type = "Steuerausgleich" /\ pnl_events[k].pnl = R(-5)

\* agreement on (trade_date, amount to 2 decimals, instrument_id, quantity to
\* 4 decimals)
SameKey(a, b) ==
    /\ a.datum = b.datum
    /\ Round(a.betrag, 100) = Round(b.betrag, 100)
    /\ a.isin = b.isin
    /\ Round(a.stueck, 10000) = Round(b.stueck, 10000)

\* the records of s that no earlier record of s agrees with, in order
RECURSIVE FirstOccurrences(_)
FirstOccurrences(s) ==
    IF s = <<>> THEN <<>>
    ELSE LET front == SubSeq(s, 1, Len(s) - 1)
             x == s[Len(s)]
         IN  IF \E k \in 1..Len(front) : SameKey(front[k], x)
             THEN FirstOccurrences(front)
             ELSE Append(FirstOccurrences(front), x)

\* C10: de-duplication returns, in input order, exactly the first occurrence
\* of each distinct key; later records with a seen key are discarded, no
\* record with a new key is discarded, no two output records share a key.
C10_DedupFirstOccurrence ==
    /\ unique_transactions =
           FirstOccurrences(SubSeq(all_transactions, 1, di - 1))
    /\ \A j, k \in 1..Len(unique_transactions) :
           j < k => ~SameKey(unique_transactions[j], unique_transactions[k])
    /\ pc # "dedup" => /\ di = Len(all_transactions) + 1
                       /\ transactions = unique_transactions

\* two records that differ before rounding collapsed and a later new record
\* was kept
C10_Witness ==
    /\ pc # "dedup"
    /\ Len(unique_transactions) = 2
    /\ Len(all_transactions) = 3
    /\ all_transactions[1] # all_transactions[2]
    /\ SameKey(all_transactions[1], all_transactions[2])
    /\ unique_transactions = <<all_transactions[1], all_transactions[3]>>

\* C11: de-duplication is idempotent: applied to its own output it returns
\* that output unchanged (same records, same order).
C11_DedupIdempotent ==
    pc # "dedup" => DedupLoop(unique_transactions).unique = unique_transactions

\* an output from which duplicates were removed and that still holds several
\* records
C11_Witness ==
    /\ pc # "dedup"
    /\ Len(unique_transactions) >= 2
    /\ Len(unique_transactions) < Len(all_transactions)
    /\ DedupLoop(unique_transactions).unique = unique_transactions

(***************************************************************************)
(* generate_html as a function of its input list                           *)
(***************************************************************************)
\* the loop over all_trade_transactions, from empty ledgers
RECURSIVE TimelineLoop(_)
TimelineLoop(ts) ==
    IF ts = <<>> THEN [by_isin |-> EmptyMap, events |-> <<>>]
    ELSE LET before == TimelineLoop(SubSeq(ts, 1, Len(ts) - 1))
         IN  TimelineLoopBody(before.by_isin, before.events, ts[Len(ts)])

\* pnl_events after pnl_events.sort(key=date)
PnlEventsOf(txs) ==
    LET dividenden == OfTyp(txs, "Dividende")
        steuerausgleich == OfTyp(txs, "Steuerausgleich")
        events == TimelineLoop(SortedTrades(txs)).events
                  \o [k \in 1..Len(dividenden) |->
                         FlatEvent(dividenden[k], "Dividende",
                                   IF dividenden[k].isin # "" THEN dividenden[k].isin
                                   ELSE "Dividende")]
                  \o [k \in 1..Len(steuerausgleich) |->
                         FlatEvent(steuerausgleich[k], "Steuerausgleich",
                                   "Steuerausgleich")]
    IN  SortAscending(events, [k \in 1..Len(events) |-> events[k].date])

\* closed_positions after sorting by pnl, descending
ClosedPositionsOf(txs) ==
    LET closed == SelectSeq(AllPositions(txs), LAMBDA p : p.closed)
    IN  SortDescending(closed, [k \in 1..Len(closed) |-> closed[k].pnl])

\* open_positions after sorting by invested, descending
OpenPositionsOf(txs) ==
    LET open == SelectSeq(AllPositions(txs), LAMBDA p : ~p.closed)
    IN  SortDescending(open, [k \in 1..Len(open) |-> open[k].invested])

\* the orderings of a list, as bijections on its indices
Orderings(txs) ==
    {f \in [1..Len(txs) -> 1..Len(txs)] :
        \A i, j \in 1..Len(txs) : i # j => f[i] # f[j]}

Reordered(txs, f) == [k \in 1..Len(txs) |-> txs[f[k]]]

\* f keeps transactions of equal date in their relative order
KeepsDateTies(txs, f) ==
    \A i, j \in 1..Len(txs) :
        (i < j /\ txs[f[i]].datum = txs[f[j]].datum) => f[i] < f[j]

\* a position without its display name
Figures(p) ==
    [closed |-> p.closed,
     base |-> [f \in DOMAIN p.base \ {"name"} |-> p.base[f]],
     rest |-> [f \in DOMAIN p \ {"closed", "base"} |-> p[f]]]

FiguresOf(positions) == {Figures(positions[k]) : k \in 1..Len(positions)}

\* C13 as stated: every ordering of the input gives the same positions and the
\* same sequence of realized-P&L events.
C13_OrderIndependent ==
    pc = "done" =>
        \A f \in Orderings(transactions) :
            LET txs == Reordered(transactions, f)
            IN  /\ ClosedPositionsOf(txs) = closed_positions
                /\ OpenPositionsOf(txs) = open_positions
                /\ PnlEventsOf(txs) = pnl_events

\* C13 (amended): every ordering gives the same per-instrument figures (the
\* display name and the order of the lists aside), and every ordering that
\* keeps transactions of equal date in their relative order gives the same
\* sequence of realized-P&L events.
C13_OrderIndependentUpToTies ==
    pc = "done" =>
        \A f \in Orderings(transactions) :
            LET txs == Reordered(transactions, f)
            IN  /\ FiguresOf(AllPositions(txs)) =
                       FiguresOf(closed_positions) \cup FiguresOf(open_positions)
                /\ KeepsDateTies(transactions, f) => PnlEventsOf(txs) = pnl_events

\* a run whose input, put in another order that keeps the date ties, has its
\* trades in another input order and still books the same sale event
C13_Witness ==
    /\ pc = "done"
    /\ Len(pnl_events) >= 1
    /\ \E f \in Orderings(transactions) :
           /\ KeepsDateTies(transactions, f)
           /\ Trades(Reordered(transactions, f)) # Trades(transactions)
           /\ PnlEventsOf(Reordered(transactions, f)) = pnl_events
           /\ pnl_events[1].type = "Trade"

\* the rows of the files whose read completed, in file order
RECURSIVE Completed(_)
Completed(files) ==
    IF files = <<>> THEN <<>>
    ELSE LET file == files[Len(files)]
             before == Completed(SubSeq(files, 1, Len(files) - 1))
         IN  IF file.raises THEN before ELSE before \o file.rows

\* the files load_transactions reads: the csv files, then the pdf files when
\* PDF_SUPPORT
FilesRead == csv_files \o (IF PDF_SUPPORT THEN pdf_files ELSE <<>>)

\* C12: a file whose read raises contributes none of its records and does not
\* stop the loading of the other files: the loaded list is the de-duplicated
\* concatenation of the records of exactly the files whose read completed.
C12_FaultIsolation ==
    /\ pc = "positions" => transactions = FirstOccurrences(Completed(FilesRead))
    /\ pc = "dedup" => all_transactions = Completed(FilesRead)

\* a file with records raised, a later file completed, and the loaded list
\* holds exactly the later file's records
C12_Witness ==
    /\ pc = "positions"
    /\ \E j, k \in 1..Len(FilesRead) :
           /\ j < k
           /\ FilesRead[j].raises /\ FilesRead[j].rows # <<>>
           /\ ~FilesRead[k].raises /\ Len(FilesRead[k].rows) = 2
    /\ Len(transactions) = 2

\* the text is blank, or what is left of it after the grouping periods are
\* removed and the comma is made a period is not a number
Unparseable(text) ==
    \/ Strip(text) = <<>>
    \/ FloatOfText(Cleaned(text)).raised

\* C18: parse_german_number never raises, and returns 0 for a blank text and
\* for every text that is not a number once cleaned.
C18_ParseNeverRaises ==
    /\ pc # "parse_number" =>
           /\ ~parsed.raised
           /\ Unparseable(value) => parsed.value = Zero
    /\ pc = "number_done" => ~reparsed.raised

\* a text with two commas, not a number, was parsed to 0
C18_Witness ==
    /\ pc = "format_number"
    /\ CountOfChar(value, ",") = 2
    /\ \E k \in 1..Len(value) : IsDigit(value[k])
    /\ FloatOfText(Cleaned(value)).raised
    /\ parsed = Returned(Zero)

\* a well-formed German decimal: an optional minus sign, digits with periods
\* only between digits, then optionally a comma and at least one digit
ValidGerman(text) ==
    LET body == IF text # <<>> /\ text[1] = "-" THEN Tail(text) ELSE text
        comma == IF \E k \in 1..Len(body) : body[k] = ","
                 THEN CHOOSE k \in 1..Len(body) : body[k] = ","
                 ELSE Len(body) + 1
    IN  /\ body # <<>>
        /\ CountOfChar(body, ",") <= 1
        /\ comma # Len(body)
        /\ comma > 1
        /\ \A k \in 1..Len(body) :
               \/ IsDigit(body[k])
               \/ k = comma
               \/ /\ body[k] = "."
                  /\ 1 < k /\ k < comma - 1 + 1
                  /\ IsDigit(body[k - 1])
                  /\ k + 1 < comma /\ IsDigit(body[k + 1])

\* the number of digits after the comma
FractionDigits(text) ==
    IF \E k \in 1..Len(text) : text[k] = ","
    THEN Len(text) - (CHOOSE k \in 1..Len(text) : text[k] = ",")
    ELSE 0

\* C19 as stated: for every valid German decimal text s,
\* parse(format(parse(s))) = parse(s).
C19_RoundTrip ==
    (pc = "number_done" /\ ValidGerman(value)) => reparsed = parsed

\* C19 (amended): the round trip reproduces the value of every valid German
\* decimal text with at most two digits after the comma.
C19_RoundTripTwoDecimals ==
    (pc = "number_done" /\ ValidGerman(value)
        /\ FractionDigits(value) <= DefaultDecimals) => reparsed = parsed

\* a negative text with a one-digit fraction came back with the same value
\* from a different text
C19_Witness ==
    /\ pc = "number_done"
    /\ ValidGerman(value)
    /\ value[1] = "-"
    /\ FractionDigits(value) = 1
    /\ formatted # value
    /\ parsed.value # Zero
    /\ reparsed = parsed

\* the text denotes a calendar date in the numeric day.month.year grammar
DenotesDotted(text) ==
    LET tokens == Strip(text)
    IN  /\ MatchesDotted(tokens)
        /\ ValidDate(TokenValue(tokens[5]), TokenValue(tokens[3]), TokenValue(tokens[1]))

\* the text denotes a calendar date in the day MonthName year grammar
DenotesNamed(text) ==
    LET match == MatchNamed(Strip(text))
    IN  /\ match.matched
        /\ match.month # 0
        /\ ValidDate(match.year, match.month, match.day)

\* C20: the date parsers never fail: a text that denotes no valid calendar
\* date in its grammar yields the sentinel minimum date instead of raising.
C20_ParseDateNeverFails ==
    /\ pc = "german_date_done" =>
           /\ ~date_result.raised
           /\ ~DenotesDotted(date_str) => date_result = Returned(DateMin)
    /\ pc = "tr_date_done" =>
           /\ ~date_result.raised
           /\ ~DenotesNamed(date_str) => date_result = Returned(DateMin)

\* a reader has produced a Transaction
Produced ==
    /\ pc \in {"delimited_done", "paged_done", "paged_trade_done"}
    /\ ~classified.raised

\* C14: for every Transaction a reader produces the two direction flags are
\* never both true; exactly one is true when the kind is a trade kind
\* (Order, Sparplan, Bruchstuecke, WP-Abrechnung) and both are false for
\* every other kind.
C14_DirectionFlags ==
    Produced =>
        LET tx == classified.value
        IN  /\ ~(tx.is_kauf /\ tx.is_verkauf)
            /\ tx.typ \in trade_types => (tx.is_kauf # tx.is_verkauf)
            /\ tx.typ \notin trade_types => (~tx.is_kauf /\ ~tx.is_verkauf)

\* C15: for every Transaction a reader produces the quantity is never
\* negative, and it is zero whenever the kind is not a trade kind.
C15_QuantityUnsigned ==
    Produced =>
        LET tx == classified.value
        IN  /\ RLe(Zero, tx.stueck)
            /\ tx.typ \notin trade_types => tx.stueck = Zero

\* a quantity text with a hyphen gave a positive quantity
C15_Witness ==
    /\ pc = "delimited_done"
    /\ \E k \in 1..Len(narrative.rest) : narrative.rest[k] = "-"
    /\ classified.value.typ = "Order"
    /\ RGt(classified.value.stueck, Zero)

\* the closed enumeration of kinds
Kinds ==
    {"Order", "Sparplan", "Bruchstuecke", "WP-Abrechnung", "Einzahlung",
     "Auszahlung", "Lastschrift", "Dividende", "Steuerausgleich",
     "Vorabpauschale", "KKT-Abschluss", "Sonstig"}

\* the narrative matches none of parse_verwendungszweck's patterns
NoDelimitedPattern(n) ==
    /\ OrderAt(n) = {}
    /\ PlanAt(n, "Sparplan-Order") = {}
    /\ PlanAt(n, "Bruchstuecke-Order") = {}
    /\ \A keyword \in Keywords \ {"Miete"} : ~HasWord(n, keyword)

\* the narrative matches none of parse_trade_republic_beschreibung's patterns
NoPagedPattern(n) ==
    /\ ~(TradeMatches(n, {"Buy", "Sell"}) /\ PagedQuantityGroup(n) # <<>>)
    /\ ~StartsWith(n, <<"Incoming", "transfer">>)
    /\ ~StartsWith(n, <<"Outgoing", "transfer">>)
    /\ ~HasWords(n, "Tax", "Optimisation")
    /\ ~HasWords(n, "Tax", "optimisation")
    /\ ~(StartsWith(n, <<"Cash", "Dividend", "for", "ISIN">>)
         /\ Len(n.words) >= 5 /\ IsIsin(n.words[5]))

\* C16: classification is total: each classifier returns, without raising,
\* a Transaction whose kind is one of the closed enumeration, and a narrative
\* that matches no pattern gets the kind Sonstig with instrument id and name
\* empty, quantity 0 and both direction flags false.
C16_ClassificationTotal ==
    /\ pc \in {"delimited_done", "paged_done"} =>
           /\ ~classified.raised
           /\ classified.value.typ \in Kinds
    /\ (pc = "delimited_done" /\ NoDelimitedPattern(narrative)) =>
           classified = Returned(WithTyp("Sonstig"))
    /\ (pc = "paged_done" /\ NoPagedPattern(narrative)) =>
           classified = Returned(WithTyp("Sonstig"))

\* an order narrative whose direction is neither Kauf nor Verkauf matched no
\* pattern and was classified Sonstig with nothing extracted
C16_Witness ==
    /\ pc = "delimited_done"
    /\ Len(narrative.words) > 6
    /\ narrative.words[1] = "Order"
    /\ narrative.words[7] = "Tausch"
    /\ narrative.rest = <<"1", "0">>
    /\ classified = Returned(WithTyp("Sonstig"))

IncomingTransfer == Narrative(<<"Incoming", "transfer">>, <<>>)

\* C17 as stated: the narrative "Incoming transfer" is classified Einzahlung
\* with empty instrument id and name, quantity 0 and both flags false, by
\* either classifier.
C17_IncomingTransfer ==
    (pc \in {"delimited_done", "paged_done"} /\ narrative = IncomingTransfer) =>
        classified = Returned(WithTyp("Einzahlung"))

\* C17 (amended): parse_trade_republic_beschreibung classifies "Incoming
\* transfer" as Einzahlung with empty instrument id and name, quantity 0 and
\* both flags false; parse_verwendungszweck, which has no such pattern,
\* classifies it as Sonstig with the same empty fields.
C17_IncomingTransferPaged ==
    /\ (pc = "paged_done" /\ narrative = IncomingTransfer) =>
           classified = Returned(WithTyp("Einzahlung"))
    /\ (pc = "delimited_done" /\ narrative = IncomingTransfer) =>
           classified = Returned(WithTyp("Sonstig"))

C17_Witness ==
    /\ pc = "paged_done"
    /\ narrative = IncomingTransfer
    /\ classified.value.typ = "Einzahlung"
    /\ classified.value.isin = ""

(***************************************************************************)
(* The quantity text of the delimited classifier.                          *)
(***************************************************************************)
\* the words are those of a trade pattern: with the quantity text "1" the
\* quantity 1 is extracted
ExtractsQuantity(words) ==
    parse_verwendungszweck(Narrative(words, <<"1">>)).stueck = R(1)

HasArtifact(text) ==
    \E k \in 1..Len(text) : text[k] \in {" ", "-"}

\* C24: for every quantity text after the STK marker that contains embedded
\* spaces or hyphens, the quantity parse_verwendungszweck extracts equals
\* parse_german_number of that text with all spaces and hyphens removed.
C24_QuantityNormalized ==
    (/\ pc = "delimited_done"
     /\ ExtractsQuantity(narrative.words)
     /\ HasArtifact(narrative.rest)) =>
        classified.value.stueck =
            parse_german_number(
                Replace(Replace(narrative.rest, " ", <<>>), "-", <<>>)).value

(***************************************************************************)
(* The average-cost ledgers of the two passes                              *)
(***************************************************************************)
\* the trades the timeline pass and the totals pass have processed so far
TimelineProcessed == SubSeq(SortedTrades(transactions), 1, ti - 1)

TotalsProcessed == SubSeq(SortedTrades(transactions), 1, ci - 1)

\* no sale of the list exceeds the units held when it is processed
NoOversell(ts) ==
    \A k \in 1..Len(ts) :
        ~ts[k].is_kauf => RLe(ts[k].stueck, Held(SubSeq(ts, 1, k - 1)))

\* C26 as stated: after any chronological sequence of buys and sells of an
\* instrument its accumulated quantity and accumulated cost are both >= 0,
\* in the ledger of the timeline pass and in that of the totals pass.
C26_LedgerNonNegative ==
    /\ \A isin \in DOMAIN cost_basis_by_isin :
           /\ RLe(Zero, AccQty(cost_basis_by_isin, isin))
           /\ RLe(Zero, AccCost(cost_basis_by_isin, isin))
    /\ \A isin \in DOMAIN cost_basis_calc :
           /\ RLe(Zero, CalcQty(cost_basis_calc, isin))
           /\ RLe(Zero, CalcCost(cost_basis_calc, isin))

\* C26 (amended): after a chronological sequence of buys and sells of an
\* instrument in which no sell exceeds the quantity accumulated before it,
\* the accumulated quantity and accumulated cost are both >= 0, in both
\* passes.
C26_CoveredLedgerNonNegative ==
    /\ \A isin \in DOMAIN cost_basis_by_isin :
           NoOversell(TradesOf(TimelineProcessed, isin)) =>
               /\ RLe(Zero, AccQty(cost_basis_by_isin, isin))
               /\ RLe(Zero, AccCost(cost_basis_by_isin, isin))
    /\ \A isin \in DOMAIN cost_basis_calc :
           NoOversell(TradesOf(TotalsProcessed, isin)) =>
               /\ RLe(Zero, CalcQty(cost_basis_calc, isin))
               /\ RLe(Zero, CalcCost(cost_basis_calc, isin))

\* a covered sale has been matched and units are still held
C26_Witness ==
    /\ pc = "timeline"
    /\ "X" \in DOMAIN cost_basis_by_isin
    /\ NoOversell(TradesOf(TimelineProcessed, "X"))
    /\ Len(pnl_events) >= 1
    /\ RGt(AccQty(cost_basis_by_isin, "X"), Zero)
    /\ RGt(AccCost(cost_basis_by_isin, "X"), Zero)

\* C27: a sell of quantity q with 0 < q < accumulated quantity leaves
\* accumulated cost / accumulated quantity as it was; a sell of exactly the
\* whole accumulated quantity leaves both accumulated quantity and
\* accumulated cost at 0.
C27_SaleKeepsAverage ==
    [][InTimelineLoop =>
          LET t == SortedTrades(transactions)[ti]
              cost == AccCost(cost_basis_by_isin, t.isin)
              qty == AccQty(cost_basis_by_isin, t.isin)
              cost_after == AccCost(cost_basis_by_isin', t.isin)
              qty_after == AccQty(cost_basis_by_isin', t.isin)
          IN  /\ (IsSell(t) /\ RGt(t.stueck, Zero) /\ RLt(t.stueck, qty))
                  => /\ RGt(qty_after, Zero)
                     /\ RDiv(cost_after, qty_after) = RDiv(cost, qty)
              /\ (IsSell(t) /\ RGt(t.stueck, Zero) /\ t.stueck = qty)
                  => /\ qty_after = Zero
                     /\ cost_after = Zero
      ]_vars

\* a partial sale has been matched and a later sale has emptied the ledger
C27_Witness ==
    /\ pc = "timeline"
    /\ "X" \in DOMAIN cost_basis_by_isin
    /\ NoOversell(TradesOf(TimelineProcessed, "X"))
    /\ Len(pnl_events) >= 1
    /\ AccQty(cost_basis_by_isin, "X") = Zero
    /\ AccCost(cost_basis_by_isin, "X") = Zero

\* all Trade events of the timeline pass
AllTradeEvents == SelectSeq(pnl_events, LAMBDA e : e.type = "Trade")

\* C28 as stated: the total trade P&L of the totals pass equals the sum of
\* the deltas of all Trade events of the timeline pass, and the headline
\* realized P&L equals the last cumulative value of the timeline.
C28_PassesAgree ==
    pc = "done" =>
        /\ total_trade_pnl = RSum(Deltas(AllTradeEvents))
        /\ pnl_timeline # <<>> =>
               total_realized_pnl = pnl_timeline[Len(pnl_timeline)].cumulative

\* C28 (amended): the total trade P&L of the totals pass equals the sum of
\* the deltas of all Trade events of the timeline pass, and the headline
\* realized P&L, rounded to two decimals, equals the last cumulative value of
\* a timeline that is not empty.
C28_PassesAgreeRounded ==
    pc = "done" =>
        /\ total_trade_pnl = RSum(Deltas(AllTradeEvents))
        /\ total_realized_pnl = RSum(Deltas(pnl_events))
        /\ pnl_timeline # <<>> =>
               Round(total_realized_pnl, 100) =
                   pnl_timeline[Len(pnl_timeline)].cumulative

\* sales were matched, a flat event was added, and the headline figure has
\* more than two decimals
C28_Witness ==
    /\ pc = "done"
    /\ Len(AllTradeEvents) >= 1
    /\ Len(AllTradeEvents) < Len(pnl_events)
    /\ total_trade_pnl # Zero
    /\ Round(total_realized_pnl, 100) # total_realized_pnl

\* in the list every buy comes before every sell
BuysFirst(ts) ==
    \A i, j \in 1..Len(ts) : (i < j /\ ts[j].is_kauf) => ts[i].is_kauf

\* every sell of the list has a positive quantity and meets units held
EverySaleMatched(ts) ==
    \A k \in 1..Len(ts) :
        ~ts[k].is_kauf => /\ RGt(ts[k].stueck, Zero)
                          /\ RGt(Held(SubSeq(ts, 1, k - 1)), Zero)

\* C29 as stated: for every Open position the reported realized partial P&L
\* equals the sum of the per-sale event deltas the average-cost ledger
\* emitted for that instrument.
C29_OpenRealizedEqualsEvents ==
    pc = "done" =>
        \A k \in 1..Len(open_positions) :
            open_positions[k].realized_pnl =
                RSum(Deltas(TradeEventsOf(open_positions[k].base.isin)))

\* C29 (amended): for every Open position whose buys all come before its
\* sells in date order, each sell having a positive quantity and meeting a
\* positive accumulated quantity, the reported realized partial P&L equals the
\* sum of the per-sale event deltas of that instrument.
C29_OpenRealizedBuysFirst ==
    pc = "done" =>
        \A k \in 1..Len(open_positions) :
            LET p == open_positions[k]
                ts == TradesOf(SortedTrades(transactions), p.base.isin)
            IN  (BuysFirst(ts) /\ EverySaleMatched(ts)) =>
                    p.realized_pnl = RSum(Deltas(TradeEventsOf(p.base.isin)))

\* an open position with two buys at different prices followed by a partial
\* sale
C29_Witness ==
    /\ pc = "done"
    /\ \E k \in 1..Len(open_positions) :
           LET p == open_positions[k]
               ts == TradesOf(SortedTrades(transactions), p.base.isin)
           IN  /\ BuysFirst(ts) /\ EverySaleMatched(ts)
               /\ p.base.kauf_count = 2
               /\ TradeEventsOf(p.base.isin) # <<>>
               /\ p.realized_pnl # Zero


\* the lines at which a record starts
AnchorKinds == {"complete", "partial", "date"}

\* the number of anchor lines the loop has met from line k up to the cursor
RECURSIVE AnchorsConsumed(_, _, _)
AnchorsConsumed(lns, k, cursor) ==
    IF k >= cursor \/ k > Len(lns) \/ ScanLine(lns, k).raised THEN 0
    ELSE (IF Branch(lns, k) \in AnchorKinds THEN 1 ELSE 0)
         + AnchorsConsumed(lns, ScanLine(lns, k).next, cursor)

C21_Iteration ==
    /\ Len(pdf_transactions') <= Len(pdf_transactions) + 1
    /\ SubSeq(pdf_transactions', 1, Len(pdf_transactions)) = pdf_transactions
    /\ Len(pdf_transactions') > Len(pdf_transactions) => Branch(lines, li) \in AnchorKinds
    /\ pc = "scan" /\ li <= Len(lines) => pc' = "scan"

\* C21: every iteration of the paged reader's loop appends no Transaction or
\* one, only an iteration at an anchor line appends one, and the loop goes on
\* scanning after it; so at any cursor the Transactions appended are at most
\* as many as the anchor lines met
C21_AtMostOnePerAnchor ==
    /\ [](Len(pdf_transactions) <= AnchorsConsumed(lines, 1, li))
    /\ [][C21_Iteration]_vars

\* two anchor lines met, one of them without a Transaction
C21_Witness ==
    /\ pc = "reader_done"
    /\ AnchorsConsumed(lines, 1, li) = 2
    /\ Len(pdf_transactions) = 1


\* the magnitudes of the amounts tried
AmountMagnitude ==
    ("100,00" :> R(100)) @@ ("1.000,10" :> <<10001, 10>>) @@ ("-7,00" :> R(7))

\* the amounts of the trade record whose anchor is line k, and whether it
\* is a purchase
TradeAmounts(lns, k) ==
    IF Branch(lns, k) \in {"complete", "partial"} THEN Amounts(lns[k + 1])
    ELSE IF k + 2 <= Len(lns) /\ year_match(lns[k + 2])
    THEN Amounts(lns[k + 1] \o lns[k + 2])
    ELSE Amounts(lns[k + 1])

TradeIsBuy(lns, k) ==
    IF Branch(lns, k) \in {"complete", "partial"} THEN Lower(lns[k][3]) = "buy"
    ELSE lns[k + 1][2] = "Buy"

\* whether the line k is the anchor of a trade record
IsTradeAnchor(lns, k) ==
    \/ Branch(lns, k) \in {"complete", "partial"}
    \/ /\ Branch(lns, k) = "date"
       /\ k + 1 <= Len(lns)
       /\ Len(lns[k + 1]) >= 3
       /\ lns[k + 1][1] = "Handel"
       /\ lns[k + 1][2] \in {"Buy", "Sell"}
       /\ lns[k + 1][3] = "trade"

C22_Selected ==
    (Len(pdf_transactions') > Len(pdf_transactions) /\ IsTradeAnchor(lines, li)) =>
        LET t == pdf_transactions'[Len(pdf_transactions')]
            amounts == TradeAmounts(lines, li)
            last == Len(amounts)
        IN  t.betrag =
                IF last = 0 THEN Zero
                ELSE IF ~TradeIsBuy(lines, li) THEN AmountMagnitude[amounts[1]]
                ELSE IF last >= 2 THEN RNeg(AmountMagnitude[amounts[last - 1]])
                ELSE RNeg(AmountMagnitude[amounts[1]])

RecordLength(lns, k) ==
    IF Branch(lns, k) = "date" /\ ~(k + 2 <= Len(lns) /\ year_match(lns[k + 2]))
    THEN 2
    ELSE 3

\* the year of the record whose anchor is line k, 0 when none is found
RecordYear(lns, k) ==
    CASE Branch(lns, k) = "complete" ->
             IF year_qty_match(lns[k + 2]) THEN TokenValue(lns[k + 2][1]) ELSE 0
      [] Branch(lns, k) = "partial" ->
             IF year_rest_match(lns[k + 2]) THEN TokenValue(lns[k + 2][1]) ELSE 0
      [] OTHER ->
             IF RecordLength(lns, k) = 3 /\ TokenValue(lns[k + 2][1]) # 0
             THEN TokenValue(lns[k + 2][1])
             ELSE YearInData(lns[k + 1])

\* the anchor of a record whose year is not found, whose month name is
\* unknown, whose date does not exist or whose type marker is unknown
Defective(lns, k) ==
    /\ Branch(lns, k) \in AnchorKinds
    /\ k + RecordLength(lns, k) - 1 < Len(lns)
    /\ \/ RecordYear(lns, k) = 0
       \/ MonthOf(lns[k][2]) = 0
       \/ ~ValidDate(RecordYear(lns, k), MonthOf(lns[k][2]), TokenValue(lns[k][1]))
       \/ Branch(lns, k) = "date" /\ TypOf(lns[k + 1]) = ""

\* the lines of the record whose anchor is line k that come before the next
\* anchor line
RecordExtent(lns, k) ==
    LET own == {j \in 1..RecordLength(lns, k) :
                   \A o \in 1..j - 1 : Branch(lns, k + o) \notin AnchorKinds}
    IN  CHOOSE j \in own : \A o \in own : o <= j

\* C23 as stated: at the anchor of a record whose year is not found, whose
\* month name is unknown, whose date does not exist or whose type marker is
\* unknown, the paged reader appends nothing and raises nothing, and reads
\* from there what it reads from the line after the record
C23_DefectiveSkipped ==
    /\ pc # "reader_raised"
    /\ (pc = "scan" /\ li <= Len(lines) /\ Defective(lines, li)) =>
           /\ ~ScanLine(lines, li).raised
           /\ ScanLine(lines, li).emitted = <<>>
           /\ ReadFrom(lines, li) = ReadFrom(lines, li + RecordExtent(lines, li))

\* C23, amended: the same for a record that has all its lines, that is when
\* no line the reader takes with the anchor is an anchor line itself
C23_WholeDefectiveSkipped ==
    /\ pc # "reader_raised"
    /\ (/\ pc = "scan" /\ li <= Len(lines) /\ Defective(lines, li)
        /\ RecordExtent(lines, li) = RecordLength(lines, li)) =>
           /\ ~ScanLine(lines, li).raised
           /\ ScanLine(lines, li).emitted = <<>>
           /\ ScanLine(lines, li).next > li
           /\ ReadFrom(lines, li) = ReadFrom(lines, li + RecordLength(lines, li))

\* a record with a date that does not exist, and the record after it read
C23_Witness ==
    /\ pc = "reader_done"
    /\ Len(lines) >= 3
    /\ Defective(lines, 1)
    /\ RecordExtent(lines, 1) = RecordLength(lines, 1)
    /\ MonthOf(lines[1][2]) # 0
    /\ RecordYear(lines, 1) # 0
    /\ TypOf(lines[2]) # ""
    /\ Len(pdf_transactions) = 1


\* the words of a year line's rest that belong to the name: those before the
\* comma and the marker quantity:, all of them without the marker
NameWords(rest) ==
    LET marks == {q \in 1..Len(rest) : rest[q] = "quantity:"}
        first == CHOOSE q \in marks : \A o \in marks : q <= o
        before == IF marks = {} THEN rest ELSE SubSeq(rest, 1, first - 1)
    IN  SelectSeq(before, LAMBDA w : w # ",")

C25_Reassembled ==
    (Len(pdf_transactions') > Len(pdf_transactions) /\ Branch(lines, li) = "partial") =>
        pdf_transactions'[Len(pdf_transactions')].name =
            SubSeq(lines[li], 6, Len(lines[li])) \o NameWords(Tail(lines[li + 2]))

\* C25: the Transaction of a partial trade record has as its name the words
\* of the anchor line's fragment followed by the words of the year line's
\* fragment, each once and in order, and nothing of the quantity or the year
C25_NameReassembled == [][C25_Reassembled]_vars


\* the last line an iteration at line k reads: the two lines after the anchor
\* of a trade record, the data line and (if there is one) the line after it
\* for an anchor with the date only, unless the end of the input is near
LastLineRead(lns, k) ==
    IF Branch(lns, k) \in {"complete", "partial"}
    THEN (IF AtEnd(lns, k, 2) THEN k ELSE k + 2)
    ELSE IF Branch(lns, k) = "date"
    THEN (IF AtEnd(lns, k, 1) THEN k
          ELSE IF k + 2 <= Len(lns) THEN k + 2 ELSE k + 1)
    ELSE k

C30_CursorAdvances ==
    (pc = "scan" /\ li <= Len(lines)) =>
        /\ pc' = "scan"
        /\ li' > li
        /\ li' <= Len(lines) + 1

\* C30: every iteration of the paged reader's loop moves the cursor forward,
\* whichever branch it takes, no iteration reads a line beyond the last one,
\* and the loop ends at the end of the input
C30_ScanTerminates ==
    /\ [][C30_CursorAdvances]_vars
    /\ [](/\ pc # "reader_raised"
          /\ (pc = "scan" /\ li <= Len(lines)) => LastLineRead(lines, li) <= Len(lines))
    /\ <>(pc = "reader_done")

\* the end of a statement of two records, the second one cut off after its
\* anchor line, with the first one read
C30_Witness ==
    /\ pc = "reader_done"
    /\ li = Len(lines) + 1
    /\ Len(lines) >= 5
    /\ Branch(lines, Len(lines) - 1) \in {"complete", "partial"}
    /\ Len(pdf_transactions) = 1

====
